---- MODULE Spec2Model ----
(***************************************************************************)
(* A model of the request-synthesis and measurement engine of oas:         *)
(* the benchmark executor (internal/benchmarker), the result aggregates    *)
(* (internal/models) and the statistics pipeline.                          *)
(*                                                                         *)
(* Specifications:                                                         *)
(*   Spec      one BenchmarkOperations run: the driving goroutine, the     *)
(*             worker pool of each Measuring phase, the run context.       *)
(*   SpecRate  the same run with the token-bucket limiter and a clock.     *)
(*   SpecPct   the pure function percentile on bounded inputs.             *)
(*   SpecTest  TestSummary.AddResult on bounded inputs.                    *)
(*   SpecValidate  Validator.ValidateResponse on bounded inputs.           *)
(*   SpecTester    one Tester.TestOperations run.                          *)
(*   SpecString    Generator.generateString on bounded inputs.             *)
(*   SpecGenerate  one Generator.GenerateValue call, with its recursion.   *)
(*   SpecProgress  the progress cadence of runConcurrentBenchmark.         *)
(***************************************************************************)
EXTENDS Integers, Sequences, FiniteSets, TLC

(***************************************************************************)
(* Bounds of the model.                                                    *)
(***************************************************************************)
MaxOps == 2
MaxIter == 2
MaxConc == 2
MaxWarm == 2
MaxDur == 1
MaxClock == 3
PctMaxLen == 3
PctMaxDur == 3
MaxTests == 4
MaxRate == 2
RateMaxOps == 1
RateMaxWarm == 1
MaxTesterOps == 2
MaxStrLen == 11
MaxSchemas == 2
MaxDepth == 4
MinProgressIter == 19
MaxProgressIter == 22
MaxSharedIter == 4
MaxSummaryResults == 3
MaxSummaryTime == 2
MaxRaw == 6
LiveMaxOps == 1
LiveMaxWarm == 1
MinCounterIter == 40
MaxCounterIter == 41
MaxFailures == 1

VARIABLES
    config,     \* Benchmarker.config: Iterations, Concurrency, WarmupRuns, RateLimit
    operations, \* the operations handed to BenchmarkOperations
    cancelled,  \* the run context: TRUE once ctx is cancelled
    pc,         \* the driving goroutine's position
    opIdx,      \* BenchmarkOperations: the loop index i
    warmI,      \* BenchmarkOperation: the warm-up loop index i
    sendI,      \* runConcurrentBenchmark: the job-sending loop index i
    jobs,       \* the jobs channel's buffer
    closed,     \* the jobs channel is closed
    results,    \* runConcurrentBenchmark: the results slice
    counters,   \* completed, totalDuration, errorCount (guarded by mu)
    wpc,        \* each worker goroutine's position
    wjob,       \* each worker's job index i
    wres,       \* each worker's res
    wcur,       \* each worker's currentCompleted, currentTotalDuration, currentErrorCount
    wwake,      \* each worker's wake-up time while it waits in limiter.Wait
    summary,    \* the BenchmarkSummary
    limiter,    \* Benchmarker.limiter: the token bucket, or nil
    now,        \* the clock, in token intervals (1/RateLimit seconds)
    measStart,  \* startTime of the current Measuring phase
    measTook,   \* history: how long each finished Measuring phase took
    events,     \* history: the events the callback received for the current operation
    written,    \* history: how often each results slot was written
    taken,      \* history: how often each job index was received
    sent,       \* history: HTTP requests issued, per operation
    reqAt,      \* history: <<operation index, results appended>> at each request
    all200,     \* history: every response so far was HTTP 200
    pctBuild,   \* percentile: the build's floating-point contraction
    pctSorted,  \* percentile: the sorted durations handed in
    pctP,       \* percentile: the last p evaluated
    pctOut,     \* percentile: percentile(pctSorted, pctP)
    pctBest,    \* percentile: the largest result for any smaller p
    tsum,       \* the TestSummary
    tadded,     \* history: the TestResults handed to AddResult, in call order
    vresp,      \* ValidateResponse: resp
    vdetails,   \* ValidateResponse: opDetails
    vout,       \* ValidateResponse: what the call returned
    tvariant,   \* which TestOperations runs: with or without the event callback
    tops,       \* TestOperations: operations
    tpc,        \* TestOperations: the position in the loop body
    ti,         \* TestOperations: the loop index i
    tresult,    \* TestOperations: result, err of the last TestOperation call
    tevents,    \* history: the events onEvent received
    gschema,    \* generateString: schema
    glength,    \* generateString: len of the string returned, -1 before the call
    gdoc,       \* GenerateValue: the schemas of the document
    gstack,     \* GenerateValue: the active calls, outermost first
    gpc,        \* GenerateValue: running, returned, or the goroutine stack overflowed
    grng,       \* Generator.rng: how many values its source has given out
    gcall,      \* each worker's position in BuildRequest and the rng state it read
    gjobs,      \* the jobs left in the channel, for the workers that build requests
    gbuilt,     \* BuildRequest: the request and the error returned, nil before the call
    pcompleted, \* the progress cadence: completed
    pmu,        \* the progress cadence: the worker that holds mu, or 0
    ppc,        \* the progress cadence: each worker's position
    pcur,       \* the progress cadence: each worker's currentCompleted
    pemitted    \* the progress cadence: each worker's last report emitted an event

runVars == <<config, operations, cancelled, pc, opIdx, warmI, sendI, jobs, closed,
             results, counters, wpc, wjob, wres, wcur, wwake, summary, limiter, now,
             measStart, measTook, events, written, taken, sent, reqAt, all200>>
pctVars == <<pctBuild, pctSorted, pctP, pctOut, pctBest>>
testVars == <<tsum, tadded>>
valVars == <<vresp, vdetails, vout>>
testerVars == <<tvariant, tops, tpc, ti, tresult, tevents>>
rngVars == <<grng, gcall, gjobs>>
genVars == <<gschema, glength, gdoc, gstack, gpc, rngVars, gbuilt>>
progVars == <<pcompleted, pmu, ppc, pcur, pemitted>>
auxVars == <<valVars, testerVars, genVars, progVars>>
vars == <<runVars, pctVars, testVars, auxVars>>

(***************************************************************************)
(* float64 arithmetic.  Every float64 that percentile computes is zero or  *)
(* at least 2^-7 (the smallest fractional part of k/100 is 0.01), so each  *)
(* is an integer multiple of 2^-59: a value x is kept as the natural       *)
(* number x * 2^59, in limbs of 24 bits, least significant first, and      *)
(* every operation rounds to 53 significant bits, ties to even, as         *)
(* IEEE 754 binary64 does.                                                 *)
(***************************************************************************)
MantBits == 53
FracBits == MantBits + 6
Base == 2^24

RECURSIVE IntBitLen(_)
IntBitLen(n) == IF n = 0 THEN 0 ELSE 1 + IntBitLen(n \div 2)

LimbBits == IntBitLen(Base) - 1

RECURSIVE BigCarry(_, _, _)
BigCarry(X, i, c) ==
    IF i > Len(X) THEN X
    ELSE LET v == X[i] + c
         IN BigCarry([X EXCEPT ![i] = v % Base], i + 1, v \div Base)

BigFromInt(n) == <<n % Base, n \div Base, 0, 0>>

BigAdd(X, Y) == BigCarry([i \in DOMAIN X |-> X[i] + Y[i]], 1, 0)

BigSub(X, Y) == BigCarry([i \in DOMAIN X |-> X[i] - Y[i]], 1, 0)

BigMulSmall(X, a) == BigCarry([i \in DOMAIN X |-> X[i] * a], 1, 0)

RECURSIVE BigDivFrom(_, _, _)
BigDivFrom(X, d, i) ==
    IF i > Len(X) THEN [q |-> [j \in DOMAIN X |-> 0], r |-> 0]
    ELSE LET hi == BigDivFrom(X, d, i + 1)
             cur == hi.r * Base + X[i]
         IN [q |-> [hi.q EXCEPT ![i] = cur \div d], r |-> cur % d]

BigDivSmall(X, d) == BigDivFrom(X, d, 1)

RECURSIVE BigTop(_, _)
BigTop(X, i) == IF i = 0 THEN 0 ELSE IF X[i] # 0 THEN i ELSE BigTop(X, i - 1)

BigBitLenAt(X, t) == IF t = 0 THEN 0 ELSE LimbBits * (t - 1) + IntBitLen(X[t])

BigBitLen(X) == BigBitLenAt(X, BigTop(X, Len(X)))

\* Round X to a multiple of m = 2^q, ties to even; r is X mod m (at most
\* LimbBits - 1 bits are dropped for the magnitudes that occur).
BigRoundUp(X, m, r) ==
    IF 2 * r > m \/ (2 * r = m /\ (X[1] \div m) % 2 = 1)
    THEN BigCarry([X EXCEPT ![1] = X[1] - r + m], 1, 0)
    ELSE [X EXCEPT ![1] = X[1] - r]

BigRoundBy(X, m) == BigRoundUp(X, m, X[1] % m)

BigRoundAt(X, L) == IF L <= MantBits THEN X ELSE BigRoundBy(X, 2^(L - MantBits))

\* Round to MantBits significant bits, ties to even.
BigRound(X) == BigRoundAt(X, BigBitLen(X))

\* float64(n) of a small non-negative integer: exact.
F64FromInt(n) == <<0, 0, n * 2^(FracBits - 2 * LimbBits), 0>>

\* float64(k) / float64(d), correctly rounded: the quotient is computed with
\* two more bits and a sticky bit for the remainder, then rounded.
F64Quotient(qr) ==
    BigDivSmall(BigRound(BigAdd(BigMulSmall(qr.q, 2),
                                BigFromInt(IF qr.r = 0 THEN 0 ELSE 1))), 8).q

F64DivInt(k, d) ==
    F64Quotient(BigDivSmall(<<0, 0, k * 2^(FracBits + 2 - 2 * LimbBits), 0>>, d))

F64Add(x, y) == BigRound(BigAdd(x, y))

F64Sub(x, y) == BigRound(BigSub(x, y))

\* float64(a) * x for a small non-negative integer a.
F64MulInt(a, x) == BigRound(BigMulSmall(x, a))

\* x*y + z evaluated as one fused operation: one rounding.
F64FmaInt(a, x, z) == BigRound(BigAdd(BigMulSmall(x, a), z))

\* int(x), time.Duration(x): truncation toward zero.
F64Trunc(x) ==
    (x[3] \div 2^(FracBits - 2 * LimbBits)) + x[4] * 2^(3 * LimbBits - FracBits)

\* The Go compiler may fuse x*y + z into one operation (it does on arm64,
\* ppc64le, s390x, riscv64; not on amd64): either product of the
\* interpolation may be the fused one.
Builds == {"none", "left", "right"}

\* float64(a)*x + float64(b)*y as the build evaluates it.
F64Interp(build, a, x, b, y) ==
    CASE build = "none" -> F64Add(F64MulInt(a, x), F64MulInt(b, y))
      [] build = "left" -> F64FmaInt(a, x, F64MulInt(b, y))
      [] build = "right" -> F64FmaInt(b, y, F64MulInt(a, x))

(***************************************************************************)
(* percentile (benchmarker.go).                                            *)
(***************************************************************************)
\* The linear interpolation: the last line of percentile.
percentileMix(build, lo, hi, weight) ==
    F64Trunc(F64Interp(build, lo, F64Sub(F64FromInt(1), weight), hi, weight))

\* percentile from lower := int(index) on.
percentileAt(build, sorted, index, lower) ==
    IF lower + 1 >= Len(sorted) THEN sorted[lower + 1]
    ELSE percentileMix(build, sorted[lower + 1], sorted[lower + 2],
                       F64Sub(index, F64FromInt(lower)))

\* percentile from index := float64(len(sorted)-1) * float64(p) / 100.0 on.
percentileIndex(build, sorted, index) ==
    percentileAt(build, sorted, index, F64Trunc(index))

percentile(build, sorted, p) ==
    IF Len(sorted) = 0 THEN 0
    ELSE IF p <= 0 THEN sorted[1]
    ELSE IF p >= 100 THEN sorted[Len(sorted)]
    ELSE percentileIndex(build, sorted, F64DivInt((Len(sorted) - 1) * p, 100))

(***************************************************************************)
(* Values.  A float64 quotient a/b that is only stored and compared is     *)
(* kept as the pair <<a, b>>; b = 1 for a literal.                         *)
(***************************************************************************)
Max(a, b) == IF a >= b THEN a ELSE b

Rat(a, b) == <<a, b>>

RatEq(x, y) == x[1] * y[2] = y[1] * x[2]

Statuses == {200, 500}

Durations == 1..MaxDur

ErrDetails == "failed to get operation details"
ErrBuild == "failed to build request"
ErrCanceled == "context canceled"
ErrRequest == "request failed"
ErrBuildRequest == "build request failed"

\* requestResult
ZeroResult == [Duration |-> 0, StatusCode |-> 0, Error |-> ""]

\* completed, totalDuration, errorCount of runConcurrentBenchmark
NoCounters == [completed |-> 0, totalDuration |-> 0, errorCount |-> 0]

\* What client.Do can give for one request: a response with a status code,
\* or a transport error; either after some duration.
Outcomes ==
    {[Duration |-> d, StatusCode |-> s, Error |-> ""] : d \in Durations, s \in Statuses}
    \cup {[Duration |-> d, StatusCode |-> 0, Error |-> ErrRequest] : d \in Durations}

EventWarmupStarting == "warmup-starting"
EventWarmupProgress == "warmup-progress"
EventWarmupCompleted == "warmup-completed"
EventBenchmarkStarting == "benchmark-starting"
EventBenchmarkProgress == "benchmark-progress"
EventBenchmarkCompleted == "benchmark-completed"

\* parser.GetOperationDetails and the sample RequestBuilder.BuildRequest:
\* both are decided by the operation's description in the document.
OpKinds == {"ok", "nodetails", "nobuild"}

DetailsOK(op) == op.kind # "nodetails"

BuildOK(op) == op.kind = "ok"

(***************************************************************************)
(* models.BenchmarkResult, models.BenchmarkSummary                         *)
(***************************************************************************)
NewResult(op) ==
    [Path |-> op.Path,
     Iterations |-> config.Iterations,
     Concurrency |-> config.Concurrency,
     WarmupRuns |-> config.WarmupRuns,
     MinTime |-> 0, MaxTime |-> 0, AvgTime |-> 0,
     P50Time |-> 0, P90Time |-> 0, P99Time |-> 0,
     RequestsPerSec |-> Rat(0, 1),
     TotalDuration |-> 0,
     SuccessCount |-> 0,
     ErrorCount |-> 0,
     ErrorRate |-> Rat(0, 1),
     StatusCodes |-> <<>>,
     SampleErrors |-> <<>>]

NewSummary ==
    [TotalEndpoints |-> 0,
     Iterations |-> config.Iterations,
     Concurrency |-> config.Concurrency,
     WarmupRuns |-> config.WarmupRuns,
     OverallMinTime |-> 0, OverallMaxTime |-> 0, OverallAvgTime |-> 0,
     TotalRequests |-> 0, TotalSuccesses |-> 0, TotalErrors |-> 0,
     OverallErrorRate |-> Rat(0, 1),
     TotalDuration |-> 0,
     OverallReqsPerSec |-> Rat(0, 1),
     Results |-> <<>>]

RECURSIVE SumWeighted(_, _)
SumWeighted(rs, i) ==
    IF i > Len(rs) THEN [avg |-> 0, weight |-> 0]
    ELSE LET rest == SumWeighted(rs, i + 1)
         IN [avg |-> rs[i].AvgTime * rs[i].Iterations + rest.avg,
             weight |-> rs[i].Iterations + rest.weight]

\* AddResult that adds the errors of a result to the successes as well.
addTotalsErrorsAsSuccesses(s, result) ==
    [s EXCEPT
       !.Results = Append(@, result),
       !.TotalEndpoints = Len(s.Results) + 1,
       !.TotalRequests = @ + result.Iterations,
       !.TotalSuccesses = @ + result.SuccessCount + result.ErrorCount,
       !.TotalErrors = @ + result.ErrorCount,
       !.OverallMinTime = IF @ = 0 \/ result.MinTime < @ THEN result.MinTime ELSE @,
       !.OverallMaxTime = IF result.MaxTime > @ THEN result.MaxTime ELSE @]

\* AddResult: the totals, the minimum and the maximum.
addTotals(s, result) ==
    [s EXCEPT
       !.Results = Append(@, result),
       !.TotalEndpoints = Len(s.Results) + 1,
       !.TotalRequests = @ + result.Iterations,
       !.TotalSuccesses = @ + result.SuccessCount,
       !.TotalErrors = @ + result.ErrorCount,
       !.OverallMinTime = IF @ = 0 \/ result.MinTime < @ THEN result.MinTime ELSE @,
       !.OverallMaxTime = IF result.MaxTime > @ THEN result.MaxTime ELSE @]

\* AddResult: the error rate and the weighted average.
addRates(s, w) ==
    [s EXCEPT
       !.OverallErrorRate =
           IF s.TotalRequests > 0 THEN Rat(s.TotalErrors * 100, s.TotalRequests) ELSE @,
       !.OverallAvgTime = IF w.weight > 0 THEN w.avg \div w.weight ELSE @]

\* BenchmarkSummary.AddResult
AddResult(s, result) ==
    addRates(addTotals(s, result), SumWeighted(Append(s.Results, result), 1))

\* BenchmarkSummary.Finalize
Finalize(s, totalDuration) ==
    [s EXCEPT
       !.TotalDuration = totalDuration,
       !.OverallReqsPerSec =
           IF totalDuration > 0 THEN Rat(s.TotalRequests, totalDuration) ELSE @]

(***************************************************************************)
(* Benchmarker.processResults                                              *)
(***************************************************************************)
Incr(m, k) == IF k \in DOMAIN m THEN [m EXCEPT ![k] = @ + 1] ELSE m @@ (k :> 1)

\* The body of the loop over rawResults, for one r: the error or the
\* success, then the status code.
\* The scan that keeps a message it has kept before.
ScanErrorRepeated(acc, r) ==
    IF r.Error # ""
    THEN [acc EXCEPT
            !.ErrorCount = @ + 1,
            !.SampleErrors = IF Len(@) < 5 THEN Append(@, r.Error) ELSE @]
    ELSE [acc EXCEPT
            !.SuccessCount = @ + 1,
            !.durations = Append(@, r.Duration),
            !.totalDuration = @ + r.Duration]

ScanError(acc, r) ==
    IF r.Error # ""
    THEN [acc EXCEPT
            !.ErrorCount = @ + 1,
            !.SampleErrors =
                IF Len(@) < 5 /\ r.Error \notin acc.errorSet
                THEN Append(@, r.Error) ELSE @,
            !.errorSet =
                IF Len(acc.SampleErrors) < 5 /\ r.Error \notin @
                THEN @ \cup {r.Error} ELSE @]
    ELSE [acc EXCEPT
            !.SuccessCount = @ + 1,
            !.durations = Append(@, r.Duration),
            !.totalDuration = @ + r.Duration]

\* ScanStatus with the histogram kept only for the attempts that failed.
ScanStatusOfErrors(acc, r) ==
    IF r.StatusCode > 0 /\ r.Error # ""
    THEN [acc EXCEPT !.StatusCodes = Incr(@, r.StatusCode)]
    ELSE acc

ScanStatus(acc, r) ==
    IF r.StatusCode > 0
    THEN [acc EXCEPT !.StatusCodes = Incr(@, r.StatusCode)]
    ELSE acc

ScanOne(acc, r) == ScanStatus(ScanError(acc, r), r)

RECURSIVE ScanResults(_, _, _)
ScanResults(acc, rawResults, i) ==
    IF i > Len(rawResults) THEN acc
    ELSE ScanResults(ScanOne(acc, rawResults[i]), rawResults, i + 1)

\* processResults after the loop: the timing statistics, the throughput
\* and the error rate; durations is sorted.
timingStats(build, result, durations, totalDuration) ==
    IF Len(durations) > 0
    THEN [result EXCEPT
            !.MinTime = durations[1],
            !.MaxTime = durations[Len(durations)],
            !.AvgTime = totalDuration \div Len(durations),
            !.P50Time = percentile(build, durations, 50),
            !.P90Time = percentile(build, durations, 90),
            !.P99Time = percentile(build, durations, 99)]
    ELSE result

throughput(result) ==
    IF result.TotalDuration > 0
    THEN [result EXCEPT !.RequestsPerSec = Rat(result.Iterations, result.TotalDuration)]
    ELSE result

\* errorRate computed from the successes instead of the errors.
errorRateOfSuccesses(result) ==
    IF result.Iterations > 0
    THEN [result EXCEPT !.ErrorRate = Rat(result.SuccessCount * 100, result.Iterations)]
    ELSE result

errorRate(result) ==
    IF result.Iterations > 0
    THEN [result EXCEPT !.ErrorRate = Rat(result.ErrorCount * 100, result.Iterations)]
    ELSE result

scanned(build, result, acc) ==
    errorRate(throughput(timingStats(
        build,
        [result EXCEPT
           !.ErrorCount = acc.ErrorCount,
           !.SuccessCount = acc.SuccessCount,
           !.SampleErrors = acc.SampleErrors,
           !.StatusCodes = acc.StatusCodes],
        SortSeq(acc.durations, LAMBDA x, y : x < y),
        acc.totalDuration)))

processResults(build, result, rawResults) ==
    IF Len(rawResults) = 0 THEN result
    ELSE scanned(build, result,
                 ScanResults([ErrorCount |-> result.ErrorCount,
                              SuccessCount |-> result.SuccessCount,
                              SampleErrors |-> result.SampleErrors,
                              StatusCodes |-> result.StatusCodes,
                              errorSet |-> {}, durations |-> <<>>,
                              totalDuration |-> 0],
                             rawResults, 1))

(***************************************************************************)
(* The benchmark run: BenchmarkOperations, BenchmarkOperation,             *)
(* runConcurrentBenchmark, executeRequest.                                 *)
(***************************************************************************)
\* A pool started with one goroutine too many (w <= Concurrency).
WorkersOneMore == 1..(config.Concurrency + 1)

Workers == 1..config.Concurrency

CurOp == operations[opIdx + 1]

\* progressInterval := max(1, b.config.Iterations/20)
progressInterval == Max(1, config.Iterations \div 20)

\* The warm-up progress cadence: max(1, b.config.WarmupRuns/5)
warmupInterval == Max(1, config.WarmupRuns \div 5)

Event(type, progress, errs) ==
    [Type |-> type, Index |-> opIdx, Progress |-> progress, ErrorCount |-> errs,
     appended |-> Len(summary.Results)]

\* The workers whose request is with the HTTP client.
InFlight == {w \in DOMAIN wpc : wpc[w] = "inflight"}

\* FailResult that records the message and leaves the counts alone.
FailResultMessageOnly(result, msg) ==
    [result EXCEPT !.SampleErrors = Append(@, msg)]

\* BenchmarkOperations, lines 483-488: the result of an operation that
\* returned an error, appended to the summary.
FailResult(result, msg) ==
    [result EXCEPT
       !.SampleErrors = Append(@, msg),
       !.ErrorCount = result.Iterations,
       !.ErrorRate = Rat(100, 1)]

\* BenchmarkOperations going on to the next operation without appending the
\* result of the one that failed.
ReturnErrorSkipped(msg) ==
    /\ summary' = summary
    /\ opIdx' = opIdx + 1
    /\ pc' = "loop"

ReturnError(msg) ==
    /\ summary' = AddResult(summary, FailResult(NewResult(CurOp), msg))
    /\ opIdx' = opIdx + 1
    /\ pc' = "loop"

\* executeRequest hands a request to client.Do.
IssueRequest ==
    /\ sent' = [sent EXCEPT ![opIdx + 1] = @ + 1]
    /\ reqAt' = reqAt \cup {<<opIdx, Len(summary.Results)>>}

poolVars == <<jobs, closed, results, counters, wpc, wjob, wres, wcur, wwake,
              written, taken, sendI>>
fixedVars == <<config, operations, pctVars, testVars, auxVars>>
timeVars == <<limiter, now, measStart, measTook>>

\* BenchmarkOperations: one iteration of the loop over the operations, up to
\* the start of the warm-up loop.  The select on ctx.Done() only breaks out
\* of the select statement.
BenchmarkLoop ==
    /\ pc = "loop"
    /\ opIdx < Len(operations)
    /\ IF ~DetailsOK(CurOp)
       THEN ReturnError(ErrDetails) /\ events' = <<>> /\ UNCHANGED warmI
       ELSE IF ~BuildOK(CurOp)
       THEN ReturnError(ErrBuild) /\ events' = <<>> /\ UNCHANGED warmI
       ELSE /\ events' = IF config.WarmupRuns > 0
                         THEN <<Event(EventWarmupStarting, 0, 0)>> ELSE <<>>
            /\ warmI' = 0
            /\ pc' = "warmup"
            /\ UNCHANGED <<summary, opIdx>>
    /\ UNCHANGED <<fixedVars, poolVars, timeVars, cancelled, sent, reqAt, all200>>

\* A warm-up loop that runs one iteration less.
WarmupLeftOneLess == warmI + 1 < config.WarmupRuns

\* The condition of the warm-up loop: i < b.config.WarmupRuns
WarmupLeft == warmI < config.WarmupRuns

\* The end of a warm-up iteration, after executeRequest has returned.
WarmupStep ==
    /\ events' = IF (warmI + 1) % warmupInterval = 0
                 THEN Append(events, Event(EventWarmupProgress, warmI + 1, 0))
                 ELSE events
    /\ warmI' = warmI + 1
    /\ pc' = "warmup"

\* The warm-up loop: the check of ctx.Done(), then executeRequest up to client.Do.
WarmupIter ==
    /\ pc = "warmup"
    /\ WarmupLeft
    /\ IF cancelled
       THEN ReturnError(ErrCanceled) /\ UNCHANGED <<events, warmI, sent, reqAt>>
       ELSE IF BuildOK(CurOp)
       THEN /\ pc' = "warmupReq"
            /\ IssueRequest
            /\ UNCHANGED <<events, warmI, summary, opIdx>>
       ELSE WarmupStep /\ UNCHANGED <<summary, opIdx, sent, reqAt>>
    /\ UNCHANGED <<fixedVars, poolVars, timeVars, cancelled, all200>>

\* client.Do returns to the warm-up loop; the result is discarded.
WarmupResponse ==
    /\ pc = "warmupReq"
    /\ \E out \in Outcomes : all200' = (all200 /\ out.StatusCode = 200)
    /\ WarmupStep
    /\ UNCHANGED <<fixedVars, poolVars, timeVars, cancelled, summary, opIdx, sent, reqAt>>

\* The warm-up loop is over: the events, then runConcurrentBenchmark up to
\* the loop that sends the jobs.
StartMeasuring ==
    /\ pc = "warmup"
    /\ ~WarmupLeft
    /\ events' = (IF config.WarmupRuns > 0
                  THEN Append(events, Event(EventWarmupCompleted, 0, 0)) ELSE events)
                 \o <<Event(EventBenchmarkStarting, 0, 0)>>
    /\ measStart' = now
    /\ results' = [i \in 1..config.Iterations |-> ZeroResult]
    /\ written' = [i \in 1..config.Iterations |-> 0]
    /\ taken' = [i \in 1..config.Iterations |-> 0]
    /\ jobs' = <<>>
    /\ closed' = FALSE
    /\ counters' = NoCounters
    /\ wpc' = [w \in Workers |-> "recv"]
    /\ wjob' = [w \in Workers |-> 0]
    /\ wres' = [w \in Workers |-> ZeroResult]
    /\ wcur' = [w \in Workers |-> NoCounters]
    /\ wwake' = [w \in Workers |-> 0]
    /\ sendI' = 0
    /\ pc' = "send"
    /\ UNCHANGED <<fixedVars, limiter, now, measTook, cancelled, summary, opIdx, warmI,
                   sent, reqAt, all200>>

\* A channel that holds one job less.
jobsCapOneLess == config.Iterations - 1

\* jobs := make(chan int, b.config.Iterations): the capacity of the channel.
jobsCap == config.Iterations

\* jobs <- i: the send blocks while the channel is full.
SendJob ==
    /\ pc = "send"
    /\ sendI < config.Iterations
    /\ Len(jobs) < jobsCap
    /\ jobs' = Append(jobs, sendI)
    /\ sendI' = sendI + 1
    /\ UNCHANGED <<fixedVars, timeVars, cancelled, pc, opIdx, warmI, closed, results,
                   counters, wpc, wjob, wres, wcur, wwake, summary, events, written,
                   taken, sent, reqAt, all200>>

\* close(jobs), then wg.Wait()
CloseJobs ==
    /\ pc = "send"
    /\ sendI = config.Iterations
    /\ closed' = TRUE
    /\ pc' = "wait"
    /\ UNCHANGED <<fixedVars, timeVars, cancelled, opIdx, warmI, sendI, jobs, results,
                   counters, wpc, wjob, wres, wcur, wwake, summary, events, written,
                   taken, sent, reqAt, all200>>

\* wg.Wait() returning as soon as one worker is done: a wait group that
\* counts one worker instead of Concurrency.
wgWaitFirst == \E w \in Workers : wpc[w] = "exit"

\* wg.Wait() can return: every worker has called wg.Done().
wgWait == \A w \in Workers : wpc[w] = "exit"

\* wg.Wait() returns; processResults, the completed event, summary.AddResult.
Join ==
    /\ pc = "wait"
    /\ wgWait
    /\ \E build \in Builds :
         LET took == now - measStart
             result == processResults(build,
                                      [NewResult(CurOp) EXCEPT !.TotalDuration = took],
                                      results)
         IN /\ summary' = AddResult(summary, result)
            /\ measTook' = Append(measTook, [op |-> opIdx, took |-> took,
                                             cancelled |-> cancelled])
    /\ events' = Append(events, Event(EventBenchmarkCompleted, 0, 0))
    /\ opIdx' = opIdx + 1
    /\ pc' = "loop"
    /\ UNCHANGED <<fixedVars, poolVars, limiter, now, measStart, cancelled, warmI,
                   sent, reqAt, all200>>

\* summary.Finalize(time.Since(startTime)); the run started at time 0.
FinalizeRun ==
    /\ pc = "loop"
    /\ opIdx = Len(operations)
    /\ summary' = Finalize(summary, now)
    /\ pc' = "done"
    /\ UNCHANGED <<fixedVars, poolVars, timeVars, cancelled, opIdx, warmI, events,
                   sent, reqAt, all200>>

(***************************************************************************)
(* The worker goroutines of runConcurrentBenchmark.                        *)
(***************************************************************************)
Min(a, b) == IF a <= b THEN a ELSE b

\* rate.NewLimiter(rate.Limit(RateLimit), int(RateLimit)): the bucket holds
\* int(RateLimit) tokens and is full at first use.  Time is counted in
\* token intervals, so one token is added per unit of time.
NewLimiter(rateLimit) ==
    IF rateLimit > 0
    THEN [nil |-> FALSE, tokens |-> rateLimit, last |-> 0, burst |-> rateLimit]
    ELSE [nil |-> TRUE, tokens |-> 0, last |-> 0, burst |-> 0]

\* limiter.Wait: the reservation of one token at time t.
Reserve(lim, t) ==
    LET tokens == Min(lim.burst, lim.tokens + (t - lim.last)) - 1
    IN [lim |-> [lim EXCEPT !.tokens = tokens, !.last = t],
        wake |-> IF tokens < 0 THEN t - tokens ELSE t]

\* results[i] = res with i the loop variable of the sender instead of the
\* job received: the slot written is the last one sent.
StoreAtSent(w, i, res) ==
    /\ wres' = [wres EXCEPT ![w] = res]
    /\ wjob' = [wjob EXCEPT ![w] = 0]
    /\ results' = [results EXCEPT ![sendI] = res]
    /\ written' = [written EXCEPT ![sendI] = @ + 1]
    /\ wpc' = [wpc EXCEPT ![w] = "update"]

\* results[i] = res; i is not read again.
Store(w, i, res) ==
    /\ wres' = [wres EXCEPT ![w] = res]
    /\ wjob' = [wjob EXCEPT ![w] = 0]
    /\ results' = [results EXCEPT ![i + 1] = res]
    /\ written' = [written EXCEPT ![i + 1] = @ + 1]
    /\ wpc' = [wpc EXCEPT ![w] = "update"]

\* executeRequest, from the call up to client.Do.
ExecuteRequest(w, i) ==
    IF BuildOK(CurOp)
    THEN /\ wpc' = [wpc EXCEPT ![w] = "inflight"]
         /\ wjob' = [wjob EXCEPT ![w] = i]
         /\ IssueRequest
         /\ UNCHANGED <<wres, results, written>>
    ELSE /\ Store(w, i, [ZeroResult EXCEPT !.Error = ErrBuildRequest])
         /\ UNCHANGED <<sent, reqAt>>

\* for i := range jobs: a job is received; the check of ctx.Done();
\* limiter.Wait up to the reservation; executeRequest up to client.Do.
WorkerTake(w) ==
    /\ w \in DOMAIN wpc
    /\ wpc[w] = "recv"
    /\ jobs # <<>>
    /\ LET i == Head(jobs)
       IN /\ jobs' = Tail(jobs)
          /\ taken' = [taken EXCEPT ![i + 1] = @ + 1]
          /\ IF cancelled
             THEN /\ wpc' = [wpc EXCEPT ![w] = "exit"]
                  /\ UNCHANGED <<wjob, wres, results, written, sent, reqAt, limiter,
                                 wwake>>
             ELSE IF limiter.nil \/ limiter.burst < 1
             THEN ExecuteRequest(w, i) /\ UNCHANGED <<limiter, wwake>>
             ELSE LET r == Reserve(limiter, now)
                  IN /\ limiter' = r.lim
                     /\ IF r.wake = now
                        THEN ExecuteRequest(w, i) /\ UNCHANGED wwake
                        ELSE /\ wpc' = [wpc EXCEPT ![w] = "ratewait"]
                             /\ wjob' = [wjob EXCEPT ![w] = i]
                             /\ wwake' = [wwake EXCEPT ![w] = r.wake]
                             /\ UNCHANGED <<wres, results, written, sent, reqAt>>
    /\ UNCHANGED <<fixedVars, now, measStart, measTook, cancelled, pc, opIdx, warmI,
                   sendI, closed, counters, wcur, summary, events, all200>>

\* limiter.Wait returns: the token's time has come, or ctx was cancelled
\* (the error is ignored); executeRequest up to client.Do, which sends
\* nothing for a context that is already cancelled.
WorkerWake(w) ==
    /\ w \in DOMAIN wpc
    /\ wpc[w] = "ratewait"
    /\ now >= wwake[w] \/ cancelled
    /\ IF cancelled
       THEN /\ Store(w, wjob[w], [ZeroResult EXCEPT !.Error = ErrRequest])
            /\ limiter' = [limiter EXCEPT !.tokens = @ + 1]
            /\ UNCHANGED <<sent, reqAt>>
       ELSE ExecuteRequest(w, wjob[w]) /\ UNCHANGED limiter
    /\ wwake' = [wwake EXCEPT ![w] = 0]
    /\ UNCHANGED <<fixedVars, now, measStart, measTook, cancelled, pc, opIdx, warmI,
                   sendI, jobs, closed, counters, wcur, summary, events, taken, all200>>

\* A worker that executes its job again when the attempt failed.
WorkerResponseRetry(w) ==
    /\ w \in DOMAIN wpc
    /\ wpc[w] = "inflight"
    /\ \E out \in Outcomes :
          /\ IF out.Error # ""
             THEN IssueRequest /\ UNCHANGED <<wpc, wjob, wres, results, written>>
             ELSE Store(w, wjob[w], out) /\ UNCHANGED <<sent, reqAt>>
          /\ all200' = (all200 /\ out.StatusCode = 200)
    /\ UNCHANGED <<fixedVars, timeVars, cancelled, pc, opIdx, warmI, sendI, jobs,
                   closed, counters, wcur, wwake, summary, events, taken>>

\* client.Do returns; results[i] = res.
WorkerResponse(w) ==
    /\ w \in DOMAIN wpc
    /\ wpc[w] = "inflight"
    /\ \E out \in Outcomes :
          /\ Store(w, wjob[w], out)
          /\ all200' = (all200 /\ out.StatusCode = 200)
    /\ UNCHANGED <<fixedVars, timeVars, cancelled, pc, opIdx, warmI, sendI, jobs,
                   closed, counters, wcur, wwake, summary, events, taken, sent, reqAt>>

\* The counters updated without the mutex: the workers that are at the
\* update together read the same counts, and all but one update is lost.
WorkerUpdateUnlocked(w) ==
    /\ w \in DOMAIN wpc
    /\ wpc[w] = "update"
    /\ LET c == [completed |-> counters.completed + 1,
                 totalDuration |-> counters.totalDuration + wres[w].Duration,
                 errorCount |-> counters.errorCount
                                + (IF wres[w].Error # "" THEN 1 ELSE 0)]
       IN /\ counters' = c
          /\ wcur' = [v \in DOMAIN wcur |-> IF wpc[v] = "update" THEN c ELSE wcur[v]]
    /\ wres' = [v \in DOMAIN wres |-> IF wpc[v] = "update" THEN ZeroResult ELSE wres[v]]
    /\ wpc' = [v \in DOMAIN wpc |-> IF wpc[v] = "update" THEN "report" ELSE wpc[v]]
    /\ UNCHANGED <<fixedVars, timeVars, cancelled, pc, opIdx, warmI, sendI, jobs,
                   closed, results, wjob, wwake, summary, events, written, taken,
                   sent, reqAt, all200>>

\* mu.Lock() ... mu.Unlock(): the counters are updated and copied out.
WorkerUpdate(w) ==
    /\ w \in DOMAIN wpc
    /\ wpc[w] = "update"
    /\ LET c == [completed |-> counters.completed + 1,
                 totalDuration |-> counters.totalDuration + wres[w].Duration,
                 errorCount |-> counters.errorCount
                                + (IF wres[w].Error # "" THEN 1 ELSE 0)]
       IN /\ counters' = c
          /\ wcur' = [wcur EXCEPT ![w] = c]
    /\ wres' = [wres EXCEPT ![w] = ZeroResult]
    /\ wpc' = [wpc EXCEPT ![w] = "report"]
    /\ UNCHANGED <<fixedVars, timeVars, cancelled, pc, opIdx, warmI, sendI, jobs,
                   closed, results, wjob, wwake, summary, events, written, taken,
                   sent, reqAt, all200>>

\* The progress event, outside the lock; then back to the range over jobs.
WorkerReport(w) ==
    /\ w \in DOMAIN wpc
    /\ wpc[w] = "report"
    /\ events' = IF wcur[w].completed % progressInterval = 0
                 THEN Append(events, Event(EventBenchmarkProgress, wcur[w].completed,
                                           wcur[w].errorCount))
                 ELSE events
    /\ wcur' = [wcur EXCEPT ![w] = NoCounters]
    /\ wpc' = [wpc EXCEPT ![w] = "recv"]
    /\ UNCHANGED <<fixedVars, timeVars, cancelled, pc, opIdx, warmI, sendI, jobs,
                   closed, results, counters, wjob, wres, wwake, summary,
                   written, taken, sent, reqAt, all200>>

\* The range over jobs ends: the channel is closed and empty; wg.Done().
WorkerExit(w) ==
    /\ w \in DOMAIN wpc
    /\ wpc[w] = "recv"
    /\ jobs = <<>>
    /\ closed
    /\ wpc' = [wpc EXCEPT ![w] = "exit"]
    /\ UNCHANGED <<fixedVars, timeVars, cancelled, pc, opIdx, warmI, sendI, jobs,
                   closed, results, counters, wjob, wres, wcur, wwake, summary, events,
                   written, taken, sent, reqAt, all200>>

\* cancel(): the signal handler of runBenchmark cancels the run context.
Cancel ==
    /\ ~cancelled
    /\ pc # "done"
    /\ cancelled' = TRUE
    /\ UNCHANGED <<fixedVars, poolVars, timeVars, pc, opIdx, warmI, summary, events,
                   sent, reqAt, all200>>

\* Time passes.
Tick ==
    /\ now < MaxClock
    /\ pc # "done"
    /\ now' = now + 1
    /\ UNCHANGED <<fixedVars, poolVars, limiter, measStart, measTook, cancelled, pc,
                   opIdx, warmI, summary, events, sent, reqAt, all200>>

(***************************************************************************)
(* Specifications                                                          *)
(***************************************************************************)
\* The lists of at most maxOps operations, each of a kind in kinds.
OperationLists(maxOps, kinds) ==
    UNION {{[k \in 1..n |-> [Path |-> k, kind |-> f[k]]] : f \in [1..n -> kinds]} :
           n \in 1..maxOps}

\* The state when BenchmarkOperations is called on a new Benchmarker.
RunStart ==
    /\ cancelled = FALSE
    /\ pc = "loop"
    /\ opIdx = 0
    /\ warmI = 0
    /\ sendI = 0
    /\ jobs = <<>>
    /\ closed = FALSE
    /\ results = <<>>
    /\ counters = NoCounters
    /\ wpc = <<>>
    /\ wjob = <<>>
    /\ wres = <<>>
    /\ wcur = <<>>
    /\ wwake = <<>>
    /\ summary = NewSummary
    /\ limiter = NewLimiter(config.RateLimit)
    /\ now = 0
    /\ measStart = 0
    /\ measTook = <<>>
    /\ events = <<>>
    /\ written = <<>>
    /\ taken = <<>>
    /\ sent = [k \in 1..Len(operations) |-> 0]
    /\ reqAt = {}
    /\ all200 = TRUE

RunInit(rates, warmups, opLists) ==
    /\ config \in [Iterations : 0..MaxIter, Concurrency : 1..MaxConc,
                   WarmupRuns : warmups, RateLimit : rates]
    /\ operations \in opLists
    /\ RunStart

\* No run: the specifications of the pure functions leave the run alone.
RunIdle ==
    /\ config = [Iterations |-> 0, Concurrency |-> 1, WarmupRuns |-> 0, RateLimit |-> 0]
    /\ operations = <<>>
    /\ RunStart

PctIdle == pctBuild = "none" /\ pctSorted = <<>> /\ pctP = 0 /\ pctOut = 0 /\ pctBest = 0

TestIdle == tsum = [TotalTests |-> 0, Passed |-> 0, Failed |-> 0, Results |-> <<>>]
            /\ tadded = <<>>

\* A nil pointer, a nil map, a nil error.
Nil == [nil |-> TRUE]

\* ValidateResponse has not been called.
NotCalled ==
    [called |-> FALSE, errors |-> <<>>, err |-> Nil, bodyRead |-> FALSE, responseDef |-> Nil]

ValIdle == vresp = Nil /\ vdetails = Nil /\ vout = NotCalled

TesterIdle ==
    /\ tvariant = "events"
    /\ tops = <<>>
    /\ tpc = "done"
    /\ ti = 0
    /\ tresult = Nil
    /\ tevents = <<>>

RngIdle == grng = 0 /\ gcall = <<>> /\ gjobs = 0 /\ gbuilt = Nil

GenIdle ==
    /\ gschema = Nil
    /\ glength = -1
    /\ gdoc = <<>>
    /\ gstack = <<>>
    /\ gpc = "returned"
    /\ RngIdle

ProgIdle ==
    /\ pcompleted = 0
    /\ pmu = 0
    /\ ppc = <<>>
    /\ pcur = <<>>
    /\ pemitted = <<>>

AuxIdle == ValIdle /\ TesterIdle /\ GenIdle /\ ProgIdle

Driver ==
    \/ BenchmarkLoop
    \/ WarmupIter
    \/ WarmupResponse
    \/ StartMeasuring
    \/ SendJob
    \/ CloseJobs
    \/ Join
    \/ FinalizeRun

Worker(w) ==
    \/ WorkerTake(w)
    \/ WorkerResponse(w)
    \/ WorkerUpdate(w)
    \/ WorkerReport(w)
    \/ WorkerExit(w)

Init ==
    /\ RunInit({0}, 0..MaxWarm, OperationLists(MaxOps, OpKinds))
    /\ PctIdle
    /\ TestIdle
    /\ AuxIdle

Next == Driver \/ (\E w \in 1..MaxConc : Worker(w)) \/ Cancel

Spec == Init /\ [][Next]_vars

\* A step of the driving goroutine other than the return of wg.Wait().
DriverRuns == pc # "wait" /\ Driver

\* wg.Wait() returns and the driving goroutine goes on: the step of Join,
\* told by the position of the driver.  Join is the only step from "wait"
\* to "loop" and can be taken whenever wgWait holds.
WaitReturns == pc = "wait" /\ wgWait /\ pc' = "loop"

\* The run under the scheduling of the Go runtime: the driving goroutine
\* and every worker goroutine take their next step when they can, and each
\* client.Do returns.  cancel() may or may not happen.
InitLive ==
    /\ RunInit({0}, 0..LiveMaxWarm, OperationLists(LiveMaxOps, {"ok"}))
    /\ PctIdle
    /\ TestIdle
    /\ AuxIdle

SpecLive ==
    /\ InitLive
    /\ [][Next]_vars
    /\ WF_vars(DriverRuns)
    /\ WF_pc(WaitReturns)
    /\ \A w \in 1..MaxConc : WF_vars(Worker(w))

\* The run with rate limiting: the limiter, the clock, and operations that
\* reach their Measuring phase.
InitRate ==
    /\ RunInit(1..MaxRate, 0..RateMaxWarm, OperationLists(RateMaxOps, {"ok"}))
    /\ PctIdle
    /\ TestIdle
    /\ AuxIdle

NextRate ==
    \/ Driver
    \/ \E w \in 1..MaxConc : Worker(w) \/ WorkerWake(w)
    \/ Cancel
    \/ Tick

SpecRate == InitRate /\ [][NextRate]_vars

(***************************************************************************)
(* percentile on bounded inputs: every sorted list of at most PctMaxLen    *)
(* durations in 0..PctMaxDur, every build, p = -1, 0, ..., 101.            *)
(***************************************************************************)
IsSorted(s) == \A i \in 1..(Len(s) - 1) : s[i] <= s[i + 1]

SortedLists ==
    {s \in UNION {[1..n -> 0..PctMaxDur] : n \in 1..PctMaxLen} : IsSorted(s)}

InitPct ==
    /\ RunIdle
    /\ TestIdle
    /\ AuxIdle
    /\ pctBuild \in Builds
    /\ pctSorted \in SortedLists
    /\ pctP = -1
    /\ pctOut = percentile(pctBuild, pctSorted, -1)
    /\ pctBest = pctOut

PercentileNext ==
    /\ pctP < 101
    /\ pctP' = pctP + 1
    /\ pctOut' = percentile(pctBuild, pctSorted, pctP + 1)
    /\ pctBest' = Max(pctBest, pctOut)
    /\ UNCHANGED <<runVars, testVars, auxVars, pctBuild, pctSorted>>

SpecPct == InitPct /\ [][PercentileNext]_vars

(***************************************************************************)
(* TestSummary.AddResult on bounded inputs.                                *)
(***************************************************************************)
TestResults == [Path : 1..2, Passed : BOOLEAN, StatusCode : {0, 200}]

\* AddResult that counts every result as failed.
TestSummaryAddResultFailed(s, result) ==
    [s EXCEPT
       !.TotalTests = @ + 1,
       !.Results = Append(@, result),
       !.Failed = @ + 1]

\* TestSummary.AddResult
TestSummaryAddResult(s, result) ==
    [s EXCEPT
       !.TotalTests = @ + 1,
       !.Results = Append(@, result),
       !.Passed = IF result.Passed THEN @ + 1 ELSE @,
       !.Failed = IF result.Passed THEN @ ELSE @ + 1]

InitTest == RunIdle /\ PctIdle /\ TestIdle /\ AuxIdle

AddTestResult ==
    /\ Len(tadded) < MaxTests
    /\ \E result \in TestResults :
          /\ tsum' = TestSummaryAddResult(tsum, result)
          /\ tadded' = Append(tadded, result)
    /\ UNCHANGED <<runVars, pctVars, auxVars>>

SpecTest == InitTest /\ [][AddTestResult]_vars

(***************************************************************************)
(* Validator.ValidateResponse (validator.go).  A string that the code      *)
(* formats or compares is a sequence of characters; a content type is the  *)
(* sequence of its parts, the media type first, parameters after it.       *)
(***************************************************************************)
DecimalDigits == <<"0", "1", "2", "3", "4", "5", "6", "7", "8", "9">>

\* fmt.Sprintf("%d", n) for n >= 0
RECURSIVE Sprintd(_)
Sprintd(n) ==
    IF n < 10 THEN <<DecimalDigits[n + 1]>>
    ELSE Sprintd(n \div 10) \o <<DecimalDigits[(n % 10) + 1]>>

\* statusCodeStr := fmt.Sprintf("%d", statusCode)
statusCodeStr(statusCode) == Sprintd(statusCode)

\* statusRange := fmt.Sprintf("%dxx", statusCode/100)
statusRange(statusCode) == Sprintd(statusCode \div 100) \o <<"x", "x">>

NotFound == [found |-> FALSE, responseDef |-> Nil]

\* for pair := Codes.First(); pair != nil; pair = pair.Next(): the first pair
\* with the key.
RECURSIVE FindCode(_, _, _)
FindCode(pairs, key, i) ==
    IF i > Len(pairs) THEN NotFound
    ELSE IF pairs[i].key = key THEN [found |-> TRUE, responseDef |-> pairs[i].value]
    ELSE FindCode(pairs, key, i + 1)

\* Check for exact status code match
MatchExact(responses, statusCode) ==
    IF ~responses.Codes.nil
    THEN FindCode(responses.Codes.pairs, statusCodeStr(statusCode), 1)
    ELSE NotFound

\* Check for default response
MatchDefault(m, responses) ==
    IF ~m.found /\ responses.Default # Nil
    THEN [found |-> TRUE, responseDef |-> responses.Default]
    ELSE m

\* Check for status code ranges
MatchRange(m, responses, statusCode) ==
    IF ~m.found /\ ~responses.Codes.nil
    THEN FindCode(responses.Codes.pairs, statusRange(statusCode), 1)
    ELSE m

\* The search with the status range tried before the default response.
MatchResponseRangeFirst(responses, statusCode) ==
    MatchDefault(MatchRange(MatchExact(responses, statusCode), responses, statusCode),
                 responses)

\* Find matching response definition
MatchResponse(responses, statusCode) ==
    MatchRange(MatchDefault(MatchExact(responses, statusCode), responses),
               responses, statusCode)

ValidationError(field, message) == [Field |-> field, Message |-> message]

\* Validate headers: a defined header that the response lacks.
RECURSIVE HeaderErrors(_, _, _)
HeaderErrors(resp, headers, i) ==
    IF i > Len(headers) THEN <<>>
    ELSE (IF headers[i] \in resp.Header THEN <<>>
          ELSE <<ValidationError(<<"header", headers[i]>>, "missing required header")>>)
         \o HeaderErrors(resp, headers, i + 1)

\* strings.Contains(contentType, part), on the parts of a content type
Contains(contentType, part) == \E i \in DOMAIN contentType : contentType[i] = part

\* strings.Contains(contentType, "json")
ContainsJSON(contentType) == Contains(contentType, "application/json")

\* strings.Split(definedContentType, ";")[0]
MediaType(definedContentType) == definedContentType[1]

ContentTypeMatched(resp, content) ==
    \E i \in DOMAIN content : Contains(resp.ContentType, MediaType(content[i].key))

ContentTypeErrors(resp, content) ==
    IF ~ContentTypeMatched(resp, content) /\ resp.ContentType # <<>>
    THEN <<ValidationError(<<"content_type">>, "unexpected content type")>>
    ELSE <<>>

\* The schema of the first defined content type that contains "json".
RECURSIVE JSONSchema(_, _)
JSONSchema(content, i) ==
    IF i > Len(content) THEN Nil
    ELSE IF ContainsJSON(content[i].key) THEN content[i].schema
    ELSE JSONSchema(content, i + 1)

RECURSIVE RequiredErrors(_, _, _)
RequiredErrors(body, required, i) ==
    IF i > Len(required) THEN <<>>
    ELSE (IF required[i] \in body.fields THEN <<>>
          ELSE <<ValidationError(<<"body", required[i]>>, "missing required field")>>)
         \o RequiredErrors(body, required, i + 1)

\* Validator.validateJSONSchema
validateJSONSchema(resp, schema) ==
    IF resp.Body.kind = "invalid"
    THEN <<ValidationError(<<"body">>, "failed to parse JSON response")>>
    ELSE (IF schema.Type # "" /\ schema.Type # resp.Body.kind
          THEN <<ValidationError(<<"body">>, "expected " \o schema.Type \o " type")>>
          ELSE <<>>)
         \o (IF schema.Type = "object" /\ resp.Body.kind = "object"
             THEN RequiredErrors(resp.Body, schema.Required, 1)
             ELSE <<>>)

\* Does ValidateResponse reach validateJSONSchema, which reads the body?
ReadsBody(resp, content) ==
    /\ ContainsJSON(resp.ContentType)
    /\ JSONSchema(content, 1) # Nil

\* Validate content type, and the body if it is JSON.
ContentErrors(resp, responseDef) ==
    IF ~responseDef.Content.nil /\ Len(responseDef.Content.pairs) > 0
    THEN ContentTypeErrors(resp, responseDef.Content.pairs)
         \o (IF ReadsBody(resp, responseDef.Content.pairs)
             THEN validateJSONSchema(resp, JSONSchema(responseDef.Content.pairs, 1))
             ELSE <<>>)
    ELSE <<>>

\* return errors, nil; with it, whether resp.Body was read and which response
\* definition was in responseDef.
Returned(errors, bodyRead, responseDef) ==
    [called |-> TRUE, errors |-> errors, err |-> Nil, bodyRead |-> bodyRead,
     responseDef |-> responseDef]

\* ValidateResponse once the response definition is found.
ValidateAgainst(resp, responseDef) ==
    Returned(HeaderErrors(resp, responseDef.Headers, 1) \o ContentErrors(resp, responseDef),
             /\ ~responseDef.Content.nil
             /\ Len(responseDef.Content.pairs) > 0
             /\ ReadsBody(resp, responseDef.Content.pairs),
             [name |-> responseDef.name])

\* ValidateResponse from the search of the response definition on.
ValidateMatched(resp, m) ==
    IF ~m.found
    THEN Returned(<<ValidationError(<<"status_code">>, "unexpected status code")>>,
                  FALSE, Nil)
    ELSE ValidateAgainst(resp, m.responseDef)

\* Validator.ValidateResponse
ValidateResponse(resp, opDetails) ==
    IF resp = Nil
    THEN Returned(<<ValidationError(<<"response">>, "response is nil")>>, FALSE, Nil)
    ELSE IF opDetails = Nil \/ opDetails.Responses = Nil
    THEN Returned(<<>>, FALSE, Nil)
    ELSE ValidateMatched(resp, MatchResponse(opDetails.Responses, resp.StatusCode))

(***************************************************************************)
(* ValidateResponse on bounded inputs.                                     *)
(***************************************************************************)
ValStatuses == {200, 201, 500}

ValKeys == {<<"2", "0", "0">>, <<"2", "x", "x">>, <<"5", "x", "x">>}

JSONType == <<"application/json">>

TextType == <<"text/plain">>

ContentTypes == {<<>>, JSONType, JSONType \o <<"charset=utf-8">>, TextType}

Bodies == {[kind |-> "invalid", fields |-> {}], [kind |-> "array", fields |-> {}],
           [kind |-> "object", fields |-> {}], [kind |-> "object", fields |-> {"id"}]}

HeaderNames == {"X-Request-Id"}

ObjectSchema == [Type |-> "object", Required |-> <<"id">>]

\* What a response definition can declare: its headers and its content.
DefShapes ==
    [Headers : {<<>>, <<"X-Request-Id">>},
     Content : {Nil @@ [pairs |-> <<>>],
                [nil |-> FALSE, pairs |-> <<[key |-> JSONType, schema |-> ObjectSchema]>>],
                [nil |-> FALSE, pairs |-> <<[key |-> TextType, schema |-> Nil]>>]}]

\* The response definition declared under a key, of a shape.
ResponseDef(key, shape) == [name |-> key, Headers |-> shape.Headers, Content |-> shape.Content]

\* The lists of at most two pairs with different keys.
CodeLists(shape) ==
    {<<>>}
    \cup {<<[key |-> k, value |-> ResponseDef(k, shape)]>> : k \in ValKeys}
    \cup {<<[key |-> k[1], value |-> ResponseDef(k[1], shape)],
            [key |-> k[2], value |-> ResponseDef(k[2], shape)]>> :
          k \in {kk \in ValKeys \X ValKeys : kk[1] # kk[2]}}

CodeMaps(shape) ==
    {Nil @@ [pairs |-> <<>>]} \cup {[nil |-> FALSE, pairs |-> c] : c \in CodeLists(shape)}

ResponsesOf(shape) ==
    [Codes : CodeMaps(shape), Default : {Nil, ResponseDef(<<"default">>, shape)}]

AllResponses == {Nil} \cup UNION {ResponsesOf(shape) : shape \in DefShapes}

AllDetails == {Nil} \cup {[Responses |-> r] : r \in AllResponses}

HTTPResponses ==
    [StatusCode : ValStatuses, Header : SUBSET HeaderNames,
     ContentType : ContentTypes, Body : Bodies]

InitValidate ==
    /\ RunIdle
    /\ PctIdle
    /\ TestIdle
    /\ TesterIdle
    /\ GenIdle
    /\ ProgIdle
    /\ vresp \in {Nil} \cup HTTPResponses
    /\ vdetails \in AllDetails
    /\ vout = NotCalled

Validate ==
    /\ ~vout.called
    /\ vout' = ValidateResponse(vresp, vdetails)
    /\ UNCHANGED <<runVars, pctVars, testVars, testerVars, genVars, progVars,
                   vresp, vdetails>>

SpecValidate == InitValidate /\ [][Validate]_vars

(***************************************************************************)
(* Tester: TestOperation and TestOperations                                *)
(***************************************************************************)
EventStarting == "starting"
EventCompleted == "completed"

\* TestEvent
TestEvent(type, op, result, index, total) ==
    [Type |-> type, Operation |-> op, Result |-> result, Index |-> index, Total |-> total]

\* The operations of the document under test: beside the kinds of OpKinds,
\* an operation that declares no responses.
TesterKinds == OpKinds \cup {"noresponses"}

\* What the document declares for an operation: a 200 response with a
\* header, or no responses at all.
DeclaredDetails(op) ==
    IF op.kind = "noresponses"
    THEN [Responses |-> Nil]
    ELSE [Responses |->
            [Codes |-> [nil |-> FALSE,
                        pairs |-> <<[key |-> <<"2", "0", "0">>,
                                     value |-> ResponseDef(<<"2", "0", "0">>,
                                                 [Headers |-> <<"X-Request-Id">>,
                                                  Content |-> Nil @@ [pairs |-> <<>>]])]>>],
             Default |-> Nil]]

\* parser.GetOperationDetails
GetOperationDetails(op) ==
    IF op.kind = "nodetails"
    THEN [opDetails |-> Nil, err |-> [msg |-> "operation not found"]]
    ELSE [opDetails |-> DeclaredDetails(op), err |-> Nil]

\* RequestBuilder.BuildRequest
BuildRequest(op) ==
    IF op.kind = "nobuild"
    THEN [req |-> Nil, err |-> [msg |-> "invalid server URL"]]
    ELSE [req |-> [Path |-> op.Path], err |-> Nil]

\* What client.Do can give: a response, or a transport error.
TransportError == [msg |-> "connection refused"]

TesterResponses ==
    [StatusCode : Statuses, Header : SUBSET HeaderNames,
     ContentType : {<<>>}, Body : {[kind |-> "invalid", fields |-> {}]}]

ClientDo ==
    {[resp |-> Nil, err |-> TransportError]}
    \cup {[resp |-> r, err |-> Nil] : r \in TesterResponses}

\* models.TestResult as TestOperation first fills it.
NewTestResult(op) ==
    [Path |-> op.Path, Passed |-> FALSE, StatusCode |-> 0, Error |-> <<>>,
     ValidationErrors |-> <<>>]

\* return result, nil; with it, the response the call received.
TestReturned(result, resp) == [result |-> result, err |-> Nil, resp |-> resp]

\* strings.Join(errorMsgs, "; ") of the "%s: %s" of each validation error.
RECURSIVE JoinErrorMsgs(_, _)
JoinErrorMsgs(validationErrors, i) ==
    IF i > Len(validationErrors) THEN <<>>
    ELSE (IF i > 1 THEN <<"; ">> ELSE <<>>)
         \o validationErrors[i].Field \o <<": ", validationErrors[i].Message>>
         \o JoinErrorMsgs(validationErrors, i + 1)

\* The check of the validation errors that passes whatever they are.
CheckedAlwaysPassed(result, validationErrors) ==
    [result EXCEPT !.ValidationErrors = validationErrors, !.Passed = TRUE]

\* TestOperation: result.ValidationErrors, then Passed or Error.
Checked(result, validationErrors) ==
    IF Len(validationErrors) = 0
    THEN [result EXCEPT !.ValidationErrors = validationErrors, !.Passed = TRUE]
    ELSE [result EXCEPT
            !.ValidationErrors = validationErrors,
            !.Error = <<"validation failed: ">> \o JoinErrorMsgs(validationErrors, 1)]

\* TestOperation from the response on.
TestValidated(result, resp, v) ==
    IF v.err # Nil
    THEN TestReturned([result EXCEPT !.Error = <<"validation error: ", v.err.msg>>], resp)
    ELSE TestReturned(Checked(result, v.errors), resp)

\* TestOperation from client.Do on.
TestExecuted(result, opDetails, done) ==
    IF done.err # Nil
    THEN TestReturned([result EXCEPT !.Error = <<"request failed: ", done.err.msg>>], Nil)
    ELSE TestValidated([result EXCEPT !.StatusCode = done.resp.StatusCode],
                       done.resp, ValidateResponse(done.resp, opDetails))

\* TestOperation from BuildRequest on.
TestBuilt(result, op, opDetails, built, done) ==
    IF built.err # Nil
    THEN TestReturned([result EXCEPT !.Error = <<"failed to build request: ", built.err.msg>>],
                      Nil)
    ELSE TestExecuted(result, opDetails, done)

\* TestOperation from GetOperationDetails on.
TestDetailed(result, op, got, done) ==
    IF got.err # Nil
    THEN TestReturned([result EXCEPT
                         !.Error = <<"failed to get operation details: ", got.err.msg>>],
                      Nil)
    ELSE TestBuilt(result, op, got.opDetails, BuildRequest(op), done)

\* Tester.TestOperation, done being what client.Do gives if it is called.
TestOperation(op, done) ==
    TestDetailed(NewTestResult(op), op, GetOperationDetails(op), done)

\* TestOperations: an error of TestOperation goes into the result.
TestOutcome(r) ==
    IF r.err # Nil
    THEN [r EXCEPT !.result.Error = <<"test execution error: ", r.err.msg>>,
                   !.result.Passed = FALSE]
    ELSE r

\* Which TestOperations runs: the one that takes onEvent, called with a
\* callback or with nil, or the one that takes no callback.
TesterVariants == {"onEvent", "nilOnEvent", "noCallback"}

\* onEvent(event), where TestOperations has a callback and it is not nil.
OnEvent(event) == IF tvariant = "onEvent" THEN Append(tevents, event) ELSE tevents

otherVars == <<runVars, pctVars, valVars, genVars, progVars>>

\* The loop takes the next operation and reports that its test is starting.
TesterStarting ==
    /\ tpc = "loop"
    /\ ti < Len(tops)
    /\ tevents' = OnEvent(TestEvent(EventStarting, tops[ti + 1], Nil, ti, Len(tops)))
    /\ tpc' = "test"
    /\ UNCHANGED <<otherVars, testVars, tvariant, tops, ti, tresult>>

\* result, err := t.TestOperation(op, parser)
TesterTest ==
    /\ tpc = "test"
    /\ \E done \in ClientDo :
          tresult' = TestOutcome(TestOperation(tops[ti + 1], done))
    /\ tpc' = "add"
    /\ UNCHANGED <<otherVars, testVars, tvariant, tops, ti, tevents>>

\* summary.AddResult(result)
TesterAdd ==
    /\ tpc = "add"
    /\ tsum' = TestSummaryAddResult(tsum, tresult.result)
    /\ tpc' = "report"
    /\ UNCHANGED <<otherVars, tadded, tvariant, tops, ti, tresult, tevents>>

\* The loop reports that the test completed and goes to the next operation.
TesterCompleted ==
    /\ tpc = "report"
    /\ tevents' = OnEvent(TestEvent(EventCompleted, tops[ti + 1], tresult.result, ti,
                                    Len(tops)))
    /\ ti' = ti + 1
    /\ tresult' = Nil
    /\ tpc' = "loop"
    /\ UNCHANGED <<otherVars, testVars, tvariant, tops>>

\* return summary
TesterReturn ==
    /\ tpc = "loop"
    /\ ti = Len(tops)
    /\ tpc' = "done"
    /\ UNCHANGED <<otherVars, testVars, tvariant, tops, ti, tresult, tevents>>

InitTester ==
    /\ RunIdle
    /\ PctIdle
    /\ TestIdle
    /\ ValIdle
    /\ GenIdle
    /\ ProgIdle
    /\ tvariant \in TesterVariants
    /\ tops \in OperationLists(MaxTesterOps, TesterKinds)
    /\ tpc = "loop"
    /\ ti = 0
    /\ tresult = Nil
    /\ tevents = <<>>

NextTester ==
    \/ TesterStarting
    \/ TesterTest
    \/ TesterAdd
    \/ TesterCompleted
    \/ TesterReturn

SpecTester == InitTester /\ [][NextTester]_vars

(***************************************************************************)
(* Generator.generateString.  A *int64 is a sequence: <<>> is nil, <<n>>   *)
(* points to n.  The schemas have no format.                               *)
(***************************************************************************)
DefaultMinLength == 0
DefaultMaxLength == 10
FloorLength == 5

\* minLength or maxLength as generateString reads it.
LengthOr(ptr, default) == IF ptr # <<>> THEN ptr[1] ELSE default

\* How many values rng.Intn can return where generateString calls it.
LengthChoices(schema) ==
    Max(1, LengthOr(schema.MaxLength, DefaultMaxLength)
           - LengthOr(schema.MinLength, DefaultMinLength) + 1)

\* length := minLength, plus rng.Intn(maxLength-minLength+1) if maxLength > minLength
DrawnLength(minLength, maxLength, intn) ==
    IF maxLength > minLength THEN minLength + intn ELSE minLength

\* if length == 0 { length = 5 }
FlooredLength(length) == IF length = 0 THEN FloorLength ELSE length

\* len of Generator.generateString(schema), intn being what rng.Intn returns.
generateString(schema, intn) ==
    IF Len(schema.Enum) > 0 THEN Len(schema.Enum[1])
    ELSE IF schema.Pattern # "" THEN Len("test-string")
    ELSE FlooredLength(DrawnLength(LengthOr(schema.MinLength, DefaultMinLength),
                                   LengthOr(schema.MaxLength, DefaultMaxLength), intn))

LengthPtrs == {<<>>} \cup {<<n>> : n \in 0..MaxStrLen}

StringSchemas ==
    [Enum : {<<>>, <<"ab">>}, Pattern : {"", "^a+$"},
     MinLength : LengthPtrs, MaxLength : LengthPtrs]

InitString ==
    /\ RunIdle
    /\ PctIdle
    /\ TestIdle
    /\ ValIdle
    /\ TesterIdle
    /\ ProgIdle
    /\ RngIdle
    /\ gschema \in StringSchemas
    /\ glength = -1
    /\ gdoc = <<>>
    /\ gstack = <<>>
    /\ gpc = "returned"

GenerateString ==
    /\ glength = -1
    /\ \E intn \in 0..(LengthChoices(gschema) - 1) :
          glength' = generateString(gschema, intn)
    /\ UNCHANGED <<runVars, pctVars, testVars, valVars, testerVars, progVars,
                   gschema, gdoc, gstack, gpc, rngVars, gbuilt>>

SpecString == InitString /\ [][GenerateString]_vars

(***************************************************************************)
(* Generator.GenerateValue, generateArray and generateObject as the calls  *)
(* they make.  A document is a sequence of schemas that refer to each      *)
(* other by position, 0 being nil; gstack holds one frame per active call  *)
(* of generateArray or generateObject, with the schemas it still has to    *)
(* generate.  The goroutine stack holds MaxDepth such frames.              *)
(***************************************************************************)
DefaultMinItems == 0
DefaultMaxItems == 3

\* count of generateArray for a schema without minItems and maxItems,
\* intn being what rng.Intn returns.
ItemCount(intn) ==
    IF DefaultMinItems + intn = 0 THEN 1 ELSE DefaultMinItems + intn

SchemaRefs == 1..MaxSchemas

PropertyLists ==
    {<<>>} \cup {<<[schema |-> r, required |-> q]>> : r \in SchemaRefs, q \in BOOLEAN}

StringSchema == [Type |-> "string", Example |-> FALSE, Items |-> 0, Properties |-> <<>>]

Schemas ==
    {StringSchema}
    \cup [Type : {"array"}, Example : BOOLEAN, Items : {0} \cup SchemaRefs,
          Properties : {<<>>}]
    \cup [Type : {"object"}, Example : BOOLEAN, Items : {0}, Properties : PropertyLists]

\* GenerateValue returns without calling generateArray or generateObject.
ReturnsAtOnce(schema) == schema.Example \/ schema.Type = "string"

\* The values generateArray or generateObject asks GenerateValue for.
Children(schema, count) ==
    IF schema.Type = "array"
    THEN IF schema.Items = 0 THEN <<>>
         ELSE [k \in 1..count |-> [schema |-> schema.Items, required |-> TRUE]]
    ELSE schema.Properties

Frame(ref, count) == [schema |-> ref, children |-> Children(gdoc[ref], count), i |-> 1]

\* The stack once the top frame has moved to its next child.
Advanced == [gstack EXCEPT ![Len(gstack)].i = @ + 1]

TopFrame == gstack[Len(gstack)]

\* GenerateValue(gdoc[ref]) called with the active calls in stack.
Call(stack, ref) ==
    IF ReturnsAtOnce(gdoc[ref])
    THEN /\ gstack' = stack
         /\ gpc' = IF stack = <<>> THEN "returned" ELSE "running"
    ELSE IF Len(stack) >= MaxDepth
    THEN /\ gstack' = stack
         /\ gpc' = "overflow"
    ELSE /\ \E intn \in 0..DefaultMaxItems :
               gstack' = Append(stack, Frame(ref, ItemCount(intn)))
         /\ gpc' = "running"

genFixed == <<runVars, pctVars, testVars, valVars, testerVars, progVars,
              gschema, glength, gdoc, rngVars, gbuilt>>

\* The caller's GenerateValue(schema) on the root of the document.
GenerateRoot ==
    /\ gpc = "call"
    /\ Call(<<>>, 1)
    /\ UNCHANGED genFixed

\* generateArray generates the next item, generateObject the next property
\* that is required or that rng.Float64() selects.
GenerateChild ==
    /\ gpc = "running"
    /\ TopFrame.i <= Len(TopFrame.children)
    /\ Call(Advanced, TopFrame.children[TopFrame.i].schema)
    /\ UNCHANGED genFixed

\* generateObject leaves out a property that is not required.
GenerateSkip ==
    /\ gpc = "running"
    /\ TopFrame.i <= Len(TopFrame.children)
    /\ ~TopFrame.children[TopFrame.i].required
    /\ gstack' = Advanced
    /\ UNCHANGED <<genFixed, gpc>>

\* generateArray or generateObject returns its result.
GenerateReturn ==
    /\ gpc = "running"
    /\ TopFrame.i > Len(TopFrame.children)
    /\ gstack' = SubSeq(gstack, 1, Len(gstack) - 1)
    /\ gpc' = IF Len(gstack) = 1 THEN "returned" ELSE "running"
    /\ UNCHANGED genFixed

InitGenerate ==
    /\ RunIdle
    /\ PctIdle
    /\ TestIdle
    /\ ValIdle
    /\ TesterIdle
    /\ ProgIdle
    /\ RngIdle
    /\ gschema = Nil
    /\ glength = -1
    /\ gdoc \in [SchemaRefs -> Schemas]
    /\ gstack = <<>>
    /\ gpc = "call"

NextGenerate ==
    \/ GenerateRoot
    \/ GenerateChild
    \/ GenerateSkip
    \/ GenerateReturn

SpecGenerate == InitGenerate /\ [][NextGenerate]_vars

(***************************************************************************)
(* The progress cadence of runConcurrentBenchmark: what each worker does   *)
(* with the mutex and the completed count after a request, for runs long   *)
(* enough that Iterations/20 is not a whole number.                        *)
(***************************************************************************)
progFixed == <<runVars, pctVars, testVars, valVars, testerVars, genVars>>

\* mu.Lock(); completed++; currentCompleted := completed
ProgressLock(w) ==
    /\ w \in DOMAIN ppc
    /\ ppc[w] \in {"recv", "reported"}
    /\ pcompleted < config.Iterations
    /\ pmu = 0
    /\ pmu' = w
    /\ pcompleted' = pcompleted + 1
    /\ pcur' = [pcur EXCEPT ![w] = pcompleted + 1]
    /\ ppc' = [ppc EXCEPT ![w] = "locked"]
    /\ UNCHANGED <<progFixed, pemitted>>

\* mu.Unlock()
ProgressUnlock(w) ==
    /\ w \in DOMAIN ppc
    /\ ppc[w] = "locked"
    /\ pmu' = 0
    /\ ppc' = [ppc EXCEPT ![w] = "unlocked"]
    /\ UNCHANGED <<progFixed, pcompleted, pcur, pemitted>>

\* if onEvent != nil && currentCompleted%progressInterval == 0 { onEvent(...) }
ProgressReport(w) ==
    /\ w \in DOMAIN ppc
    /\ ppc[w] = "unlocked"
    /\ pemitted' = [pemitted EXCEPT ![w] = (pcur[w] % progressInterval = 0)]
    /\ ppc' = [ppc EXCEPT ![w] = "reported"]
    /\ UNCHANGED <<progFixed, pcompleted, pmu, pcur>>

InitProgress ==
    /\ config \in [Iterations : MinProgressIter..MaxProgressIter, Concurrency : 1..MaxConc,
                   WarmupRuns : {0}, RateLimit : {0}]
    /\ operations = <<>>
    /\ RunStart
    /\ PctIdle
    /\ TestIdle
    /\ ValIdle
    /\ TesterIdle
    /\ GenIdle
    /\ pcompleted = 0
    /\ pmu = 0
    /\ ppc = [w \in Workers |-> "recv"]
    /\ pcur = [w \in Workers |-> 0]
    /\ pemitted = [w \in Workers |-> FALSE]

ProgressWorker(w) ==
    \/ ProgressLock(w)
    \/ ProgressUnlock(w)
    \/ ProgressReport(w)

NextProgress == \E w \in 1..MaxConc : ProgressWorker(w)

SpecProgress == InitProgress /\ [][NextProgress]_vars

(***************************************************************************)
(* The shared counters of a long Measuring phase that is not cancelled:    *)
(* the jobs are all in the channel and the channel is closed, which the    *)
(* driver reaches before any worker runs.  A worker's request is one step, *)
(* its outcome kept by the worker only; at most MaxFailures requests fail. *)
(* The callback of this run keeps the events it is given in the order of   *)
(* their Progress.                                                         *)
(***************************************************************************)
Failures ==
    counters.errorCount + Cardinality({v \in DOMAIN wres : wres[v].Error # ""})

\* for i := range jobs; res := b.executeRequest(...)
CountersDone(w) ==
    /\ w \in DOMAIN wpc
    /\ wpc[w] = "recv"
    /\ jobs # <<>>
    /\ jobs' = Tail(jobs)
    /\ \E out \in Outcomes :
          /\ out.StatusCode # 500
          /\ out.Error # "" => Failures < MaxFailures
          /\ wres' = [wres EXCEPT ![w] = out]
    /\ wpc' = [wpc EXCEPT ![w] = "update"]
    /\ UNCHANGED <<fixedVars, timeVars, cancelled, pc, opIdx, warmI, sendI, closed,
                   results, counters, wjob, wcur, wwake, summary, events, written,
                   taken, sent, reqAt, all200>>

\* The events with e among them, in the order of their Progress.
KeptInOrder(evs, e) ==
    SubSeq(evs, 1, Cardinality({j \in DOMAIN evs : evs[j].Progress <= e.Progress}))
    \o <<e>>
    \o SubSeq(evs, Cardinality({j \in DOMAIN evs : evs[j].Progress <= e.Progress}) + 1,
              Len(evs))

\* The progress event, outside the lock, given to the callback that keeps
\* the events in order; then back to the range over jobs.
CountersReport(w) ==
    /\ w \in DOMAIN wpc
    /\ wpc[w] = "report"
    /\ events' = IF wcur[w].completed % progressInterval = 0
                 THEN KeptInOrder(events, Event(EventBenchmarkProgress,
                                                wcur[w].completed, wcur[w].errorCount))
                 ELSE events
    /\ wcur' = [wcur EXCEPT ![w] = NoCounters]
    /\ wpc' = [wpc EXCEPT ![w] = "recv"]
    /\ UNCHANGED <<fixedVars, timeVars, cancelled, pc, opIdx, warmI, sendI, jobs,
                   closed, results, counters, wjob, wres, wwake, summary,
                   written, taken, sent, reqAt, all200>>

InitCounters ==
    /\ config \in [Iterations : MinCounterIter..MaxCounterIter, Concurrency : 1..MaxConc,
                   WarmupRuns : {0}, RateLimit : {0}]
    /\ operations \in OperationLists(1, {"ok"})
    /\ cancelled = FALSE
    /\ pc = "wait"
    /\ opIdx = 0
    /\ warmI = 0
    /\ sendI = config.Iterations
    /\ jobs = [i \in 1..config.Iterations |-> i - 1]
    /\ closed = TRUE
    /\ results = [i \in 1..config.Iterations |-> ZeroResult]
    /\ written = [i \in 1..config.Iterations |-> 0]
    /\ taken = [i \in 1..config.Iterations |-> 0]
    /\ counters = NoCounters
    /\ wpc = [w \in Workers |-> "recv"]
    /\ wjob = [w \in Workers |-> 0]
    /\ wres = [w \in Workers |-> ZeroResult]
    /\ wcur = [w \in Workers |-> NoCounters]
    /\ wwake = [w \in Workers |-> 0]
    /\ summary = NewSummary
    /\ limiter = NewLimiter(config.RateLimit)
    /\ now = 0
    /\ measStart = 0
    /\ measTook = <<>>
    /\ events = <<>>
    /\ sent = [k \in 1..Len(operations) |-> 0]
    /\ reqAt = {}
    /\ all200 = TRUE
    /\ PctIdle
    /\ TestIdle
    /\ AuxIdle

CountersWorker(w) ==
    \/ CountersDone(w)
    \/ WorkerUpdate(w)
    \/ CountersReport(w)
    \/ WorkerExit(w)

NextCounters == \E w \in 1..MaxConc : CountersWorker(w)

SpecCounters == InitCounters /\ [][NextCounters]_vars

(***************************************************************************)
(* What the workers of a Measuring phase share when they build requests.   *)
(* Every worker calls b.requestBuilder.BuildRequest, which draws from the  *)
(* one rand.Rand of the one Generator; a rand.Rand made by rand.New takes  *)
(* no lock, and a draw reads the state of its source and writes it back.   *)
(* The operation has a parameter whose value takes one draw.               *)
(***************************************************************************)
sharedFixed == <<runVars, pctVars, testVars, valVars, testerVars, progVars,
                 gschema, glength, gdoc, gstack, gpc, gbuilt>>

\* for i := range jobs; executeRequest calls BuildRequest.
SharedTake(w) ==
    /\ w \in DOMAIN gcall
    /\ gcall[w].pc = "recv"
    /\ gjobs > 0
    /\ gjobs' = gjobs - 1
    /\ gcall' = [gcall EXCEPT ![w].pc = "build"]
    /\ UNCHANGED <<sharedFixed, grng>>

\* g.rng.Intn, first half: the source's state is read.
RngLoad(w) ==
    /\ w \in DOMAIN gcall
    /\ gcall[w].pc = "build"
    /\ gcall' = [gcall EXCEPT ![w] = [pc |-> "drawing", seen |-> grng, value |-> @.value]]
    /\ UNCHANGED <<sharedFixed, grng, gjobs>>

\* g.rng.Intn, second half: the state is written back and the value
\* returned; the request goes out and the worker takes the next job.
RngStore(w) ==
    /\ w \in DOMAIN gcall
    /\ gcall[w].pc = "drawing"
    /\ grng' = gcall[w].seen + 1
    /\ gcall' = [gcall EXCEPT ![w] = [pc |-> "recv", seen |-> 0, value |-> gcall[w].seen]]
    /\ UNCHANGED <<sharedFixed, gjobs>>

InitShared ==
    /\ config \in [Iterations : 0..MaxSharedIter, Concurrency : 1..MaxConc,
                   WarmupRuns : {0}, RateLimit : {0}]
    /\ operations = <<>>
    /\ RunStart
    /\ PctIdle
    /\ TestIdle
    /\ ValIdle
    /\ TesterIdle
    /\ ProgIdle
    /\ gschema = Nil
    /\ glength = -1
    /\ gdoc = <<>>
    /\ gstack = <<>>
    /\ gpc = "returned"
    /\ grng = 0
    /\ gcall = [w \in Workers |-> [pc |-> "recv", seen |-> 0, value |-> -1]]
    /\ gjobs = config.Iterations
    /\ gbuilt = Nil

SharedWorker(w) ==
    \/ SharedTake(w)
    \/ RngLoad(w)
    \/ RngStore(w)

NextShared == \E w \in 1..MaxConc : SharedWorker(w)

SpecShared == InitShared /\ [][NextShared]_vars

(***************************************************************************)
(* BenchmarkSummary.AddResult and Finalize on bounded inputs.              *)
(***************************************************************************)
summaryFixed == <<fixedVars, poolVars, timeVars, cancelled, pc, opIdx, warmI, events,
                  sent, reqAt, all200>>

\* summary.AddResult(result)
SummaryAdd ==
    /\ Len(summary.Results) < MaxSummaryResults
    /\ \E n \in 0..MaxIter, e \in 0..MaxIter, lo, hi \in 0..MaxSummaryTime :
          /\ e <= n
          /\ lo <= hi
          /\ summary' = AddResult(summary,
                                  [NewResult([Path |-> 1]) EXCEPT
                                     !.Iterations = n, !.ErrorCount = e,
                                     !.SuccessCount = n - e, !.MinTime = lo,
                                     !.AvgTime = lo, !.MaxTime = hi])
    /\ UNCHANGED summaryFixed

\* summary.Finalize(totalDuration)
SummaryFinalize ==
    /\ \E totalDuration \in 0..1 : summary' = Finalize(summary, totalDuration)
    /\ UNCHANGED summaryFixed

InitSummary == RunIdle /\ PctIdle /\ TestIdle /\ AuxIdle

SpecSummary == InitSummary /\ [][SummaryAdd \/ SummaryFinalize]_vars

(***************************************************************************)
(* Benchmarker.processResults on bounded inputs: raw results with more     *)
(* different error messages than SampleErrors keeps.                       *)
(***************************************************************************)
ErrorMessages ==
    <<"request failed: EOF", "request failed: timeout", "request failed: refused",
      "request failed: reset", "request failed: no route", "build request failed: nil">>

\* The messages among the raw results so far.
MessagesSeen == {results[i].Error : i \in DOMAIN results} \ {""}

\* What the next raw result can be: a success, a failure with a message
\* seen before, or one with the next message not seen yet (the messages
\* being interchangeable, they first appear in the order of ErrorMessages).
RawResults ==
    {[Duration |-> 1, StatusCode |-> 200, Error |-> ""]}
    \cup {[Duration |-> 1, StatusCode |-> 0, Error |-> ErrorMessages[k]] :
          k \in 1..Min(Len(ErrorMessages), Cardinality(MessagesSeen) + 1)}

samplesFixed == <<fixedVars, timeVars, cancelled, pc, opIdx, warmI, events, sent, reqAt,
                  all200, jobs, closed, counters, wpc, wjob, wres, wcur, wwake,
                  written, taken, sendI>>

\* A worker has stored one more raw result.
SamplesStore ==
    /\ summary.Results = <<>>
    /\ Len(results) < MaxRaw
    /\ \E r \in RawResults : results' = Append(results, r)
    /\ UNCHANGED <<samplesFixed, summary>>

\* result = b.processResults(result, results)
SamplesProcess ==
    /\ summary.Results = <<>>
    /\ \E build \in Builds :
          summary' = AddResult(summary,
                               processResults(build, NewResult([Path |-> 1]), results))
    /\ UNCHANGED <<samplesFixed, results>>

InitSamples == RunIdle /\ PctIdle /\ TestIdle /\ AuxIdle

SpecSamples == InitSamples /\ [][SamplesStore \/ SamplesProcess]_vars

(***************************************************************************)
(* RequestBuilder.BuildRequest for an operation with a request body, and   *)
(* the values the Generator makes for it.  A schema is nil, a string with  *)
(* an example, an array or an object; the schema of an item or of a        *)
(* property is a proxy whose Schema() gives a schema or, when it cannot be *)
(* resolved, nil.                                                          *)
(***************************************************************************)
MaxNest == 2

Unresolved == [resolved |-> FALSE]

ExampleSchema == [resolved |-> TRUE, Type |-> "string", Example |-> "ex"]

\* The schemas nested at most d deep, and the proxies of such schemas.
RECURSIVE BodySchemas(_)
Proxies(d) == IF d = 0 THEN {Unresolved, ExampleSchema}
              ELSE {Unresolved} \cup BodySchemas(d)

BodySchemas(d) ==
    IF d = 0 THEN {ExampleSchema}
    ELSE {ExampleSchema}
         \cup [resolved : {TRUE}, Type : {"array"}, Items : {Nil} \cup Proxies(d - 1)]
         \cup [resolved : {TRUE}, Type : {"object"},
               Property : Proxies(d - 1), Required : BOOLEAN]

StringValue(str) == [kind |-> "string", str |-> str]

\* The values GenerateValue can return for a schema, over the draws of rng.
RECURSIVE GenerateValues(_)

\* generateArray: count values of the item schema (the error of
\* GenerateValue dropped), or as many "item".
generateArray(schema) ==
    {[kind |-> "array", items |-> items] :
        items \in UNION {[1..ItemCount(intn) ->
                            IF schema.Items # Nil /\ schema.Items.resolved
                            THEN {g.val : g \in GenerateValues(schema.Items)}
                            ELSE {StringValue("item")}] :
                         intn \in 0..DefaultMaxItems}}

\* generateObject: the property if it is required or chosen, and resolved.
generateObject(schema) ==
    {[kind |-> "object", fields |-> fields] :
        fields \in
           (IF schema.Property.resolved
            THEN {{[name |-> "p", value |-> g.val]} :
                     g \in GenerateValues(schema.Property)}
            ELSE {{}})
           \cup (IF schema.Required /\ schema.Property.resolved THEN {} ELSE {{}})}

\* Generator.GenerateValue
GenerateValues(schema) ==
    IF schema = Nil THEN {[val |-> Nil, err |-> [msg |-> "schema is nil"]]}
    ELSE IF schema.Type = "string"
         THEN {[val |-> StringValue(schema.Example), err |-> Nil]}
    ELSE IF schema.Type = "array"
         THEN {[val |-> v, err |-> Nil] : v \in generateArray(schema)}
    ELSE {[val |-> v, err |-> Nil] : v \in generateObject(schema)}

\* Generator.GenerateRequestBody from the schema of the content.
GenerateRequestBody(schema) ==
    IF schema = Nil
    THEN {[body |-> Nil, err |-> [msg |-> "no schema found in request body"]]}
    ELSE {[body |-> g.val, err |-> g.err] : g \in GenerateValues(schema)}

\* BuildRequest for a POST with the body generated.
BuildBody(generated) ==
    IF generated.err # Nil
    THEN [req |-> Nil, err |-> [msg |-> "failed to generate request body"]]
    ELSE [req |-> [Method |-> "POST", Body |-> generated.body], err |-> Nil]

InitBuild ==
    /\ RunIdle
    /\ PctIdle
    /\ TestIdle
    /\ ValIdle
    /\ TesterIdle
    /\ ProgIdle
    /\ gschema \in {Nil} \cup BodySchemas(MaxNest)
    /\ glength = -1
    /\ gdoc = <<>>
    /\ gstack = <<>>
    /\ gpc = "returned"
    /\ grng = 0
    /\ gcall = <<>>
    /\ gjobs = 0
    /\ gbuilt = Nil

\* req, err := rb.BuildRequest(opDetails, serverURL)
Build ==
    /\ gbuilt = Nil
    /\ \E generated \in GenerateRequestBody(gschema) :
          gbuilt' = BuildBody(generated)
    /\ UNCHANGED <<runVars, pctVars, testVars, valVars, testerVars, progVars,
                   gschema, glength, gdoc, gstack, gpc, rngVars>>

SpecBuild == InitBuild /\ [][Build]_vars

(***************************************************************************)
(* Properties of the benchmark run (Spec).                                 *)
(***************************************************************************)
CountsConsistent(r) ==
    /\ r.SuccessCount + r.ErrorCount = r.Iterations
    /\ r.Iterations > 0 => RatEq(r.ErrorRate, Rat(r.ErrorCount * 100, r.Iterations))

\* C1: every BenchmarkResult appended while the run is not cancelled, of an
\* operation that was measured or of one that failed before any HTTP call,
\* has SuccessCount + ErrorCount = Iterations and, Iterations being
\* positive, ErrorRate = ErrorCount / Iterations * 100.
ResultCountsConsistent ==
    ~cancelled =>
        \A k \in DOMAIN summary.Results : CountsConsistent(summary.Results[k])

\* A finished run, not cancelled, with two workers, whose result mixes a
\* success and an error, next to the result of an operation that failed.
ResultCountsConsistentWitness ==
    /\ pc = "done"
    /\ ~cancelled
    /\ config.Concurrency = 2
    /\ \E k \in DOMAIN summary.Results :
          summary.Results[k].SuccessCount = 1 /\ summary.Results[k].ErrorCount = 1
    /\ \E k \in DOMAIN summary.Results : ~BuildOK(operations[k])

FailureMessage(op) == IF DetailsOK(op) THEN ErrBuild ELSE ErrDetails

Synthesized(r, op) ==
    /\ r.ErrorCount = r.Iterations
    /\ r.SuccessCount = 0
    /\ RatEq(r.ErrorRate, Rat(100, 1))
    /\ \E j \in DOMAIN r.SampleErrors : r.SampleErrors[j] = FailureMessage(op)

\* C2: for an operation whose details or whose sample request cannot be had,
\* no HTTP request is ever issued, its BenchmarkResult has ErrorCount =
\* Iterations, SuccessCount = 0, ErrorRate = 100 and the failure message
\* among SampleErrors, and the run goes on to its end with a result for
\* every operation.
FailedOperationSynthesized ==
    /\ \A k \in DOMAIN operations :
          ~BuildOK(operations[k]) =>
              /\ sent[k] = 0
              /\ opIdx >= k => /\ k \in DOMAIN summary.Results
                               /\ Synthesized(summary.Results[k], operations[k])
    /\ pc = "done" => Len(summary.Results) = Len(operations)

\* An operation that failed, followed by one that issued its requests.
FailedOperationSynthesizedWitness ==
    /\ pc = "done"
    /\ config.Iterations = 2
    /\ Len(operations) = 2
    /\ ~BuildOK(operations[1])
    /\ BuildOK(operations[2])
    /\ sent[2] >= 2

\* C3: the operations are processed in input order, one at a time: the
\* summary holds one result per operation gone through, Results[k] is that
\* of operations[k], the finished run has one result per input operation,
\* and every event and every request of an operation happens when exactly
\* the results of the operations before it have been appended.
OperationsInOrder ==
    /\ Len(summary.Results) = opIdx
    /\ \A k \in DOMAIN summary.Results : summary.Results[k].Path = operations[k].Path
    /\ pc = "done" => Len(summary.Results) = Len(operations)
    /\ \A j \in DOMAIN events : events[j].appended = events[j].Index
    /\ \A q \in reqAt : q[2] = q[1]

\* Two operations that both issued requests, the second after the first's
\* result was appended.
OperationsInOrderWitness ==
    /\ pc = "done"
    /\ Len(operations) = 2
    /\ <<0, 0>> \in reqAt
    /\ <<1, 1>> \in reqAt

Holding(w) == wpc[w] \in {"ratewait", "inflight"}

\* C4: no job index is received twice, no slot of results is written twice,
\* no two workers hold the same job, and when the workers of a phase that
\* was not cancelled have joined, every job index has been received once and
\* every slot written once.
SlotsWrittenOnce ==
    /\ \A i \in DOMAIN written : written[i] <= 1 /\ taken[i] <= 1
    /\ \A v, w \in DOMAIN wpc :
          (v # w /\ Holding(v) /\ Holding(w)) => wjob[v] # wjob[w]
    /\ (pc = "wait" /\ wgWait /\ ~cancelled) =>
          \A i \in 1..config.Iterations :
              /\ taken[i] = 1
              /\ written[i] = 1
              /\ results[i] # ZeroResult

\* Two workers have joined after two jobs, not cancelled.
SlotsWrittenOnceWitness ==
    /\ pc = "wait"
    /\ wgWait
    /\ ~cancelled
    /\ config.Concurrency = 2
    /\ config.Iterations = 2
    /\ written = <<1, 1>>

\* The requests with the HTTP client: those of the workers and that of the
\* warm-up loop.
RequestsInFlight == Cardinality(InFlight) + (IF pc = "warmupReq" THEN 1 ELSE 0)

\* C6: at most Concurrency requests are in flight at any moment, at most one
\* during the warm-up, none outside the two phases, and no measured request
\* while a warm-up request is in flight.
InFlightBounded ==
    /\ RequestsInFlight <= config.Concurrency
    /\ pc \in {"warmup", "warmupReq"} => RequestsInFlight <= 1
    /\ pc = "warmupReq" => InFlight = {}
    /\ pc \in {"loop", "done"} => RequestsInFlight = 0

\* Two requests in flight with Concurrency = 2, after a warm-up.
InFlightBoundedWitness ==
    /\ config.Concurrency = 2
    /\ config.WarmupRuns > 0
    /\ Cardinality(InFlight) = 2

EventRank(type) ==
    CASE type = EventWarmupStarting -> 1
      [] type = EventWarmupProgress -> 2
      [] type = EventWarmupCompleted -> 3
      [] type = EventBenchmarkStarting -> 4
      [] type = EventBenchmarkProgress -> 5
      [] type = EventBenchmarkCompleted -> 6

Repeatable(type) == type \in {EventWarmupProgress, EventBenchmarkProgress}

\* C7: the events of an operation arrive in the order warmup-starting,
\* warmup-progress*, warmup-completed, benchmark-starting,
\* benchmark-progress*, benchmark-completed: the kinds never go back, only a
\* progress event repeats, the first event is warmup-starting (or
\* benchmark-starting without warm-up), and benchmark-starting follows
\* warmup-completed directly.
EventsInOrder ==
    /\ \A i, j \in DOMAIN events :
          i < j => /\ EventRank(events[i].Type) <= EventRank(events[j].Type)
                   /\ events[i].Type = events[j].Type => Repeatable(events[i].Type)
    /\ events # <<>> =>
          events[1].Type = IF config.WarmupRuns > 0 THEN EventWarmupStarting
                           ELSE EventBenchmarkStarting
    /\ \A i \in DOMAIN events :
          (events[i].Type = EventBenchmarkStarting /\ config.WarmupRuns > 0) =>
              i > 1 /\ events[i - 1].Type = EventWarmupCompleted

\* An operation that delivered all six kinds, two of them progress events of
\* two workers.
EventsInOrderWitness ==
    /\ config.Concurrency = 2
    /\ {events[i].Type : i \in DOMAIN events} =
          {EventWarmupStarting, EventWarmupProgress, EventWarmupCompleted,
           EventBenchmarkStarting, EventBenchmarkProgress, EventBenchmarkCompleted}
    /\ Cardinality({i \in DOMAIN events : events[i].Type = EventBenchmarkProgress}) = 2

StatusCount(s) == Cardinality({i \in DOMAIN results : results[i].StatusCode = s})

AllSucceeded(r) ==
    /\ r.SuccessCount = r.Iterations
    /\ r.ErrorCount = 0
    /\ RatEq(r.ErrorRate, Rat(0, 1))
    /\ DOMAIN r.StatusCodes = IF r.Iterations > 0 THEN {200} ELSE {}
    /\ \A s \in DOMAIN r.StatusCodes : r.StatusCodes[s] = r.Iterations

\* C8: while every response was HTTP 200 and the run is not cancelled, each
\* measured operation's result has SuccessCount = Iterations, ErrorCount = 0,
\* ErrorRate = 0 and StatusCodes = {200: Iterations}; and when an operation
\* has delivered benchmark-completed, its histogram counts, for each non-zero
\* status code, the slots of results that hold it, and nothing else.
StatusCodesCounted ==
    /\ (all200 /\ ~cancelled) =>
          \A k \in DOMAIN summary.Results :
              BuildOK(operations[k]) => AllSucceeded(summary.Results[k])
    /\ (events # <<>> /\ events[Len(events)].Type = EventBenchmarkCompleted) =>
          /\ DOMAIN summary.Results[opIdx].StatusCodes =
                {results[i].StatusCode : i \in DOMAIN results} \ {0}
          /\ \A s \in DOMAIN summary.Results[opIdx].StatusCodes :
                summary.Results[opIdx].StatusCodes[s] = StatusCount(s)

\* A run of two iterations on two workers after a warm-up, all answered 200.
StatusCodesCountedWitness ==
    /\ pc = "done"
    /\ all200
    /\ ~cancelled
    /\ config.Concurrency = 2
    /\ config.WarmupRuns = 2
    /\ \E k \in DOMAIN summary.Results :
          /\ BuildOK(operations[k])
          /\ summary.Results[k].StatusCodes = (200 :> 2)

(***************************************************************************)
(* Properties of the rate-limited run (SpecRate).  The clock counts token  *)
(* intervals, so I / R seconds are Iterations units.                       *)
(***************************************************************************)
\* C5: with RateLimit = R > 0, a Measuring phase of I requests that was not
\* cancelled lasts at least I / R seconds whatever Concurrency is; the first
\* request needing no wait, one token interval is allowed for.
MeasuringLastsIterationsOverRate ==
    \A k \in DOMAIN measTook :
        ~measTook[k].cancelled => measTook[k].took >= config.Iterations - 1

(***************************************************************************)
(* Properties of percentile (SpecPct).                                     *)
(***************************************************************************)
\* C9: for a non-empty sorted list, percentile at p <= 0 is the minimum, at
\* p >= 100 the maximum, and percentile never decreases when p grows.
PercentileMonotone ==
    pctSorted # <<>> =>
        /\ pctP <= 0 => pctOut = pctSorted[1]
        /\ pctP >= 100 => pctOut = pctSorted[Len(pctSorted)]
        /\ pctBest <= pctOut

(***************************************************************************)
(* Properties of TestSummary.AddResult (SpecTest).                         *)
(***************************************************************************)
\* C10: after any sequence of AddResult calls, TotalTests = Passed + Failed
\* = len(Results), Passed counts the results added with Passed = true, and
\* Results holds the results added, in call order and unchanged.
TestSummaryCounts ==
    /\ tsum.TotalTests = tsum.Passed + tsum.Failed
    /\ tsum.TotalTests = Len(tsum.Results)
    /\ tsum.Passed = Cardinality({i \in DOMAIN tadded : tadded[i].Passed})
    /\ tsum.Results = tadded

\* Three calls or more, with results that passed and results that failed.
TestSummaryCountsWitness ==
    /\ Len(tadded) >= 3
    /\ tsum.Passed >= 1
    /\ tsum.Failed >= 1
    /\ tadded[1] # tadded[2]

(***************************************************************************)
(* Properties of ValidateResponse (SpecValidate).                          *)
(***************************************************************************)
\* The keys a status code is looked up under, written out.
KeysOf ==
    (200 :> [exact |-> <<"2", "0", "0">>, range |-> <<"2", "x", "x">>])
    @@ (201 :> [exact |-> <<"2", "0", "1">>, range |-> <<"2", "x", "x">>])
    @@ (500 :> [exact |-> <<"5", "0", "0">>, range |-> <<"5", "x", "x">>])

Declares(responses, key) ==
    /\ ~responses.Codes.nil
    /\ \E i \in DOMAIN responses.Codes.pairs : responses.Codes.pairs[i].key = key

\* The name of the definition the priority order selects, or Nil.
DefinitionByPriority(responses, statusCode) ==
    IF Declares(responses, KeysOf[statusCode].exact)
    THEN [name |-> KeysOf[statusCode].exact]
    ELSE IF responses.Default # Nil THEN [name |-> <<"default">>]
    ELSE IF Declares(responses, KeysOf[statusCode].range)
    THEN [name |-> KeysOf[statusCode].range]
    ELSE Nil

StatusCodeErrorOnly(out) ==
    /\ Len(out.errors) = 1
    /\ out.errors[1].Field = <<"status_code">>
    /\ ~out.bodyRead

\* C13: for a response and response definitions that are present,
\* ValidateResponse validates against the definition under the exact status
\* code, else the default, else the range "Nxx"; when there is none it
\* returns exactly one error, of field "status_code", and has read no body
\* and reported no header or content type.
DefinitionPickedByPriority ==
    (vout.called /\ vresp # Nil /\ vdetails # Nil /\ vdetails.Responses # Nil) =>
        /\ vout.responseDef = DefinitionByPriority(vdetails.Responses, vresp.StatusCode)
        /\ vout.responseDef = Nil => StatusCodeErrorOnly(vout)

\* Definitions {"200"} with a header and a JSON body declared, status 500
\* with a body that would not validate.
DefinitionPickedByPriorityWitness ==
    /\ vout.called
    /\ vresp # Nil
    /\ vdetails # Nil
    /\ vdetails.Responses # Nil
    /\ vresp.StatusCode = 500
    /\ vresp.Body.kind = "invalid"
    /\ vresp.ContentType = JSONType
    /\ vresp.Header = {}
    /\ vdetails.Responses.Default = Nil
    /\ ~vdetails.Responses.Codes.nil
    /\ Len(vdetails.Responses.Codes.pairs) = 1
    /\ vdetails.Responses.Codes.pairs[1].key = <<"2", "0", "0">>
    /\ vdetails.Responses.Codes.pairs[1].value.Headers # <<>>
    /\ StatusCodeErrorOnly(vout)

AbsentInput == vresp = Nil \/ vdetails = Nil \/ vdetails.Responses = Nil

\* C14: ValidateResponse returns no error of its own, and for a nil
\* response, nil operation details or operation details without response
\* definitions it returns a list of exactly one validation error.
AbsentInputSingleError ==
    vout.called =>
        /\ vout.err = Nil
        /\ AbsentInput => Len(vout.errors) = 1


(***************************************************************************)
(* Properties of the Tester (SpecTester)                                   *)
(***************************************************************************)
\* A call of TestOperation has returned and its result is still in scope.
TestReturnedNow == tresult # Nil

\* C11: TestOperation never returns an error.  A result that did not pass
\* has a non-empty Error; one obtained without a response has StatusCode 0;
\* and the result passed exactly when a response was received and the
\* validation of it gave no error.
TestOperationNeverFails ==
    TestReturnedNow =>
        /\ tresult.err = Nil
        /\ ~tresult.result.Passed => tresult.result.Error # <<>>
        /\ tresult.resp = Nil => tresult.result.StatusCode = 0
        /\ tresult.result.Passed <=>
              /\ tresult.resp # Nil
              /\ ValidateResponse(tresult.resp, DeclaredDetails(tops[ti + 1])).errors = <<>>

\* A run of two operations: the first got a 500 that the document does not
\* declare and did not pass, the second got a response and passed.
TestOperationNeverFailsWitness ==
    /\ tpc = "done"
    /\ Len(tsum.Results) = 2
    /\ tsum.Results[1].StatusCode = 500
    /\ ~tsum.Results[1].Passed
    /\ tsum.Results[2].Passed



\* The k-th event is the one the order starting(0), completed(0),
\* starting(1), ... puts there.
EventInOrder(k) ==
    /\ tevents[k].Index = (k - 1) \div 2
    /\ tevents[k].Type = (IF k % 2 = 1 THEN EventStarting ELSE EventCompleted)
    /\ tevents[k].Total = Len(tops)
    /\ tevents[k].Operation = tops[tevents[k].Index + 1]

\* The completed event carries the result that the summary holds for its
\* operation.
CarriesAppended(event) ==
    event.Type = EventCompleted =>
        /\ Len(tsum.Results) > event.Index
        /\ tsum.Results[event.Index + 1] = event.Result

\* The operations are tested in input order and the events come in pairs,
\* 2N of them by the time TestOperations returns.
EventsPaired ==
    /\ \A j \in 1..Len(tsum.Results) : tsum.Results[j].Path = tops[j].Path
    /\ \A k \in 1..Len(tevents) : EventInOrder(k) /\ CarriesAppended(tevents[k])
    /\ tpc = "done" => Len(tevents) = 2 * Len(tops) /\ Len(tsum.Results) = Len(tops)

\* C12: TestOperations tests the operations one after the other in input
\* order and delivers, for N operations, exactly 2N events: starting(0),
\* completed(0), starting(1), completed(1), ...; completed(i) carries the
\* result appended to the summary for operation i and comes after the
\* append.  (A caller that passes a nil callback asks for no events.)
TestEventsPaired == tvariant # "nilOnEvent" => EventsPaired

\* The same of the TestOperations that is given a callback.
TestEventsPairedWithCallback == tvariant = "onEvent" => EventsPaired

TestEventsPairedWithCallbackWitness ==
    /\ tvariant = "onEvent"
    /\ tpc = "done"
    /\ Len(tevents) = 4
    /\ tevents[2].Result.Passed
    /\ ~tevents[4].Result.Passed


(***************************************************************************)
(* Properties of generateString (SpecString)                               *)
(***************************************************************************)
\* A string schema without enum or pattern (none has a format).
PlainString(schema) == schema.Enum = <<>> /\ schema.Pattern = ""

AbsentOrZero(ptr) == ptr = <<>> \/ ptr = <<0>>

\* C15: for a string schema without format, enum or pattern whose
\* minLength is at most its maxLength, the generated string's length is 5
\* when both bounds are absent or zero, and is in [minLength, maxLength]
\* otherwise (an absent bound being its default, 0 or 10).
StringLengthInBounds ==
    (/\ glength # -1
     /\ PlainString(gschema)
     /\ LengthOr(gschema.MinLength, DefaultMinLength)
          <= LengthOr(gschema.MaxLength, DefaultMaxLength)) =>
        IF AbsentOrZero(gschema.MinLength) /\ AbsentOrZero(gschema.MaxLength)
        THEN glength = FloorLength
        ELSE /\ LengthOr(gschema.MinLength, DefaultMinLength) <= glength
             /\ glength <= LengthOr(gschema.MaxLength, DefaultMaxLength)

\* The same read with the floor of 5 as part of the lower bound: a length
\* above a declared maxLength.
StringLengthAtMostMax ==
    (/\ glength # -1
     /\ PlainString(gschema)
     /\ gschema.MaxLength # <<>>
     /\ gschema.MaxLength # <<0>>
     /\ LengthOr(gschema.MinLength, DefaultMinLength) <= gschema.MaxLength[1]) =>
        glength <= gschema.MaxLength[1]


(***************************************************************************)
(* Properties of GenerateValue (SpecGenerate)                              *)
(***************************************************************************)
\* C16: GenerateValue terminates on every schema, a self-referencing one
\* included: the depth of its recursion is bounded, so it never exhausts
\* the goroutine stack.
GenerateValueDepthBounded == gpc # "overflow"

\* A cycle is cut: no schema is being generated inside its own generation.
CycleCut ==
    \A j, k \in 1..Len(gstack) : j # k => gstack[j].schema # gstack[k].schema


(***************************************************************************)
(* Properties of the warm-up and of cancellation (Spec, SpecRate)          *)
(***************************************************************************)
RECURSIVE SeqSum(_, _)
SeqSum(seq, i) == IF i > Len(seq) THEN 0 ELSE seq[i] + SeqSum(seq, i + 1)

Warming == pc \in {"warmup", "warmupReq"}

Measuring == pc \in {"send", "wait"}

\* During the warm-up the requests of the operation are the finished
\* warm-up iterations and the one in flight, and no worker runs.
WarmupSequential ==
    Warming =>
        /\ sent[opIdx + 1] = warmI + (IF pc = "warmupReq" THEN 1 ELSE 0)
        /\ \A w \in DOMAIN wpc : wpc[w] = "exit"

\* While a run that is not cancelled measures, the warm-up loop has done
\* its WarmupRuns iterations, and the requests of the operation are these
\* and one per job a worker has taken.
WarmupComplete ==
    (Measuring /\ ~cancelled) =>
        /\ warmI = config.WarmupRuns
        /\ sent[opIdx + 1] = config.WarmupRuns + SeqSum(taken, 1)

\* The step that ends a warm-up request leaves the results array, the
\* counters and the summary as they are.
WarmupDiscarded ==
    pc = "warmupReq" =>
        /\ results' = results
        /\ counters' = counters
        /\ summary' = summary

\* C17: in an operation that is not cancelled exactly WarmupRuns warm-up
\* requests are executed, one after the other by the calling goroutine, all
\* finished before the first measured request starts; no outcome of a
\* warm-up request enters the results array, the counters or the statistics.
WarmupRunsUnmeasured ==
    /\ [](WarmupSequential /\ WarmupComplete)
    /\ [][WarmupDiscarded]_vars

\* Two warm-up requests and two measured ones have been made; the run was
\* not cancelled and the operation's result counts the measured ones only.
WarmupRunsUnmeasuredWitness ==
    /\ ~cancelled
    /\ pc = "loop"
    /\ opIdx = 1
    /\ config.WarmupRuns = 2
    /\ config.Iterations = 2
    /\ sent[1] = 4
    /\ summary.Results[1].SuccessCount + summary.Results[1].ErrorCount = 2


\* The result is the one BenchmarkOperations makes of an operation that
\* returned the context's error.
FailedAsCancelled(r) ==
    /\ \E k \in 1..Len(r.SampleErrors) : r.SampleErrors[k] = ErrCanceled
    /\ r.ErrorCount = r.Iterations
    /\ RatEq(r.ErrorRate, Rat(100, 1))

\* C18: a run cancelled during the warm-up of an operation leaves the
\* warm-up loop without raising an error: the operation is not reported as
\* a failed operation on account of the cancellation.
CancelledWarmupNotFailed ==
    \A j \in 1..Len(summary.Results) : ~FailedAsCancelled(summary.Results[j])


\* The worker has not begun the request of a job: it waits for a job or
\* for a rate-limit token.
NotBegun(w) == wpc[w] \in {"recv", "ratewait"}

\* The worker is in executeRequest or past it.
Executing(w) == wpc'[w] \in {"inflight", "update"}

\* No HTTP request goes out in a step taken after the cancellation.
NothingSentOnceCancelled == cancelled => sent' = sent

\* C19: once the run context is cancelled no worker starts executing a
\* request for a job it has not begun, also if it was waiting for a
\* rate-limit token when the context was cancelled, and no warm-up
\* iteration starts; no request goes out any more.
NoExecutionOnceCancelled ==
    [][cancelled =>
          /\ sent' = sent
          /\ pc = "warmup" => pc' # "warmupReq"
          /\ \A w \in DOMAIN wpc : NotBegun(w) => ~Executing(w)]_vars


(***************************************************************************)
(* Properties of the progress cadence (SpecProgress)                       *)
(***************************************************************************)
\* ceil(Iterations / 20), at least 1
CeilInterval == Max(1, (config.Iterations + 19) \div 20)

\* C20: a worker emits a benchmark-progress event after a completion
\* exactly when the completed count it read under the mutex is a multiple
\* of ceil(Iterations / 20) (at least 1), and it emits the event after it
\* has released the mutex.
ProgressEveryCeilInterval ==
    \A w \in DOMAIN ppc :
        /\ ppc[w] = "reported" => (pemitted[w] <=> pcur[w] % CeilInterval = 0)
        /\ ppc[w] \in {"unlocked", "reported"} => pmu # w

\* The same with the interval the code computes.
ProgressEveryInterval ==
    \A w \in DOMAIN ppc :
        /\ ppc[w] = "reported" => (pemitted[w] <=> pcur[w] % progressInterval = 0)
        /\ ppc[w] \in {"unlocked", "reported"} => pmu # w


(***************************************************************************)
(* Properties of the measured requests (Spec)                              *)
(***************************************************************************)
\* The requests an operation makes when nothing stops it.
FullRequests == config.WarmupRuns + config.Iterations

\* The slot holds the outcome of one failed attempt.
FailedOnce(i) == results[i].Error # "" => written[i] = 1 /\ taken[i] = 1

\* C21: every measured iteration is one attempt: a failed attempt is one
\* error in its slot and is not executed again, so an operation never
\* issues more than WarmupRuns + Iterations HTTP requests and, in a run
\* that is not cancelled, an operation whose requests build issues exactly
\* that many.
OneAttemptPerIteration ==
    /\ \A k \in DOMAIN sent : sent[k] <= FullRequests
    /\ Measuring => \A i \in DOMAIN results : FailedOnce(i)
    /\ ~cancelled =>
          \A k \in 1..opIdx : BuildOK(operations[k]) => sent[k] = FullRequests

\* An operation with a warm-up request and two measured ones, one of which
\* failed, is over; the run was not cancelled.
OneAttemptPerIterationWitness ==
    /\ ~cancelled
    /\ opIdx = 1
    /\ config.WarmupRuns = 1
    /\ config.Iterations = 2
    /\ sent[1] = 3
    /\ summary.Results[1].ErrorCount = 1


(***************************************************************************)
(* Properties of the state the workers share (SpecShared)                  *)
(***************************************************************************)
\* The worker is between reading and writing the state of the rng source.
Drawing(w) == gcall[w].pc = "drawing"

\* C22: the workers of a Measuring phase share only the rate limiter, the
\* counters under the mutex and the results array: no other mutable state,
\* that of the request builder's value generator included, is read or
\* written by two workers at once.
OnlyGuardedStateShared ==
    \A v, w \in DOMAIN gcall : v # w => ~(Drawing(v) /\ Drawing(w))

\* What the race does: by the end every job has taken one value from the
\* source.
EveryDrawCounted ==
    (gjobs = 0 /\ \A w \in DOMAIN gcall : gcall[w].pc = "recv") =>
        grng = config.Iterations


(***************************************************************************)
(* Properties of BenchmarkSummary.AddResult (SpecSummary)                  *)
(***************************************************************************)
RECURSIVE FieldSum(_, _, _)
FieldSum(rs, field, i) ==
    IF i > Len(rs) THEN 0 ELSE rs[i][field] + FieldSum(rs, field, i + 1)

\* C23: after any sequence of AddResult calls OverallMinTime is the
\* smallest MinTime and OverallMaxTime the largest MaxTime of the results
\* appended, in whatever order they came, the results of failed operations
\* (MinTime 0) included.
OverallMinMax ==
    summary.Results # <<>> =>
        /\ \E k \in DOMAIN summary.Results :
              summary.Results[k].MinTime = summary.OverallMinTime
        /\ \A k \in DOMAIN summary.Results :
              summary.Results[k].MinTime >= summary.OverallMinTime
        /\ \E k \in DOMAIN summary.Results :
              summary.Results[k].MaxTime = summary.OverallMaxTime
        /\ \A k \in DOMAIN summary.Results :
              summary.Results[k].MaxTime <= summary.OverallMaxTime

\* The totals of the summary are those of its results.
TotalsAreSums ==
    /\ summary.TotalEndpoints = Len(summary.Results)
    /\ summary.TotalRequests = FieldSum(summary.Results, "Iterations", 1)
    /\ summary.TotalSuccesses = FieldSum(summary.Results, "SuccessCount", 1)
    /\ summary.TotalErrors = FieldSum(summary.Results, "ErrorCount", 1)
    /\ summary.TotalRequests > 0 =>
          RatEq(summary.OverallErrorRate,
                Rat(summary.TotalErrors * 100, summary.TotalRequests))

\* A step that appends a result leaves what Finalize sets.
AddLeavesFinal ==
    Len(summary'.Results) > Len(summary.Results) =>
        /\ summary'.TotalDuration = summary.TotalDuration
        /\ summary'.OverallReqsPerSec = summary.OverallReqsPerSec

\* C24: after any sequence of AddResult calls TotalEndpoints is the number
\* of results, TotalRequests, TotalSuccesses and TotalErrors are the sums
\* of Iterations, SuccessCount and ErrorCount, and OverallErrorRate is
\* TotalErrors / TotalRequests * 100; AddResult leaves TotalDuration and
\* OverallReqsPerSec, which only Finalize sets.
SummaryTotals == []TotalsAreSums /\ [][AddLeavesFinal]_vars

\* Three results were added, with errors among them, the last one after a
\* Finalize that set the duration.
SummaryTotalsWitness ==
    /\ Len(summary.Results) = 3
    /\ summary.TotalErrors = 3
    /\ summary.TotalSuccesses = 2
    /\ summary.TotalDuration = 1
    /\ summary.Results[3].ErrorCount = 2


(***************************************************************************)
(* Properties of processResults (SpecSamples)                              *)
(***************************************************************************)
\* The index of the first raw result with the message, 0 if there is none.
FirstAt(msg) ==
    IF \E i \in DOMAIN results : results[i].Error = msg
    THEN CHOOSE i \in DOMAIN results :
            /\ results[i].Error = msg
            /\ \A j \in 1..(i - 1) : results[j].Error # msg
    ELSE 0

\* S is the sequence of the first at most 5 different non-empty error
\* messages of the raw results, in the order of the job indexes.
FirstDistinct(S) ==
    /\ Len(S) <= 5
    /\ \A k \in DOMAIN S : S[k] # "" /\ FirstAt(S[k]) > 0
    /\ \A j, k \in DOMAIN S : j < k => FirstAt(S[j]) < FirstAt(S[k])
    /\ \A i \in DOMAIN results :
          (results[i].Error # "" /\ \A k \in DOMAIN S : S[k] # results[i].Error) =>
              Len(S) = 5 /\ FirstAt(S[5]) < i

\* C25: SampleErrors never holds more than 5 strings nor the same string
\* twice; it is the sequence of the first different non-empty error
\* messages met when the results are scanned in the order of the job
\* indexes.
SampleErrorsFirstDistinct ==
    \A k \in DOMAIN summary.Results : FirstDistinct(summary.Results[k].SampleErrors)

\* Six raw results with six different messages, of which five were kept.
SampleErrorsFirstDistinctWitness ==
    /\ Len(summary.Results) = 1
    /\ Len(results) = 6
    /\ \A i, j \in DOMAIN results : i # j => results[i].Error # results[j].Error
    /\ \A i \in DOMAIN results : results[i].Error # ""
    /\ Len(summary.Results[1].SampleErrors) = 5

\* Raw results that repeat a message between two others.
SampleErrorsRepeatWitness ==
    /\ Len(summary.Results) = 1
    /\ Len(results) = 4
    /\ results[1].Error # ""
    /\ results[2].Error = ""
    /\ results[3].Error = results[1].Error
    /\ results[4].Error \notin {"", results[1].Error}
    /\ Len(summary.Results[1].SampleErrors) = 2


(***************************************************************************)
(* Properties of BuildRequest (SpecBuild)                                  *)
(***************************************************************************)
\* A value of the schema cannot be produced: the schema itself is missing,
\* or the schema of its items or of its property cannot be resolved.
RECURSIVE CannotProduce(_)
CannotProduce(schema) ==
    \/ schema = Nil
    \/ /\ schema.Type = "array"
       /\ schema.Items # Nil
       /\ ~schema.Items.resolved \/ CannotProduce(schema.Items)
    \/ /\ schema.Type = "object"
       /\ ~schema.Property.resolved \/ CannotProduce(schema.Property)

\* A value made from "item" placeholders, or an object without its property.
RECURSIVE Makeshift(_)
Makeshift(val) ==
    \/ val.kind = "string" /\ val.str = "item"
    \/ val.kind = "array" /\ \E k \in DOMAIN val.items : Makeshift(val.items[k])
    \/ val.kind = "object" /\ \/ val.fields = {}
                              \/ \E f \in val.fields : Makeshift(f.value)

\* C26: when a value cannot be produced for the request, BuildRequest
\* fails with an error; it returns no request built from a placeholder or
\* with the property left out.
BuildFailsWhenNoValue ==
    (gbuilt # Nil /\ CannotProduce(gschema)) => gbuilt.err # Nil

\* What the code does instead: only a body without a schema makes
\* BuildRequest fail, and an unresolved schema below it shows in the body
\* as "item" or as a property left out whenever it is reached.
BuildFailsOnlyWithoutSchema ==
    gbuilt # Nil => (gbuilt.err # Nil <=> gschema = Nil)

BuiltFromPlaceholder ==
    /\ gbuilt # Nil
    /\ gbuilt.err = Nil
    /\ CannotProduce(gschema)
    /\ Makeshift(gbuilt.req.Body)

(***************************************************************************)
(* Termination of the Measuring phase (SpecLive)                           *)
(***************************************************************************)
\* Every worker started for the operation has called wg.Done().
AllExited == wpc # <<>> /\ \A w \in DOMAIN wpc : wpc[w] = "exit"

SendNeverBlocks ==
    (pc = "send" /\ sendI < config.Iterations) => ENABLED SendJob

\* C27: the Measuring phase always terminates: the driving thread is never
\* blocked sending a job, every worker eventually exits, also when workers
\* return early on cancellation, and runConcurrentBenchmark returns.
MeasuringTerminates ==
    /\ []SendNeverBlocks
    /\ (pc = "send") ~> AllExited
    /\ (pc = "send") ~> (pc = "loop")

\* runConcurrentBenchmark has returned in a cancelled run whose workers
\* left jobs in the channel.
MeasuringTerminatesWitness ==
    /\ pc = "loop"
    /\ opIdx > 0
    /\ cancelled
    /\ AllExited
    /\ jobs # <<>>

(***************************************************************************)
(* Jobs left unexecuted by a cancelled Measuring phase (Spec)              *)
(***************************************************************************)
\* runConcurrentBenchmark has just returned for the last operation: its
\* result is the last of the summary and the pool is as the workers left it.
JustMeasured ==
    /\ pc = "loop"
    /\ opIdx > 0
    /\ \E k \in DOMAIN measTook : measTook[k].op = opIdx - 1

\* The jobs whose request received an HTTP response or a transport error.
Responded == {i \in DOMAIN written : written[i] > 0}

\* The jobs no worker executed.
Unexecuted == {i \in DOMAIN written : written[i] = 0}

\* C28: in a cancelled run a job that no worker executed is not counted as
\* a success: SuccessCount is at most the number of measured requests that
\* received a response, and such jobs add no zero-duration sample (every
\* response takes at least one unit of time).
UnexecutedNotSuccess ==
    JustMeasured =>
        /\ summary.Results[opIdx].SuccessCount <= Cardinality(Responded)
        /\ summary.Results[opIdx].SuccessCount > 0 =>
              summary.Results[opIdx].MinTime > 0

\* What the code does: every job left unexecuted is counted as a success.
UnexecutedCounted ==
    JustMeasured =>
        /\ summary.Results[opIdx].SuccessCount >= Cardinality(Unexecuted)
        /\ summary.Results[opIdx].SuccessCount + summary.Results[opIdx].ErrorCount
              = config.Iterations

UnexecutedCountedWitness ==
    /\ JustMeasured
    /\ cancelled
    /\ Responded = {}
    /\ summary.Results[opIdx].SuccessCount = config.Iterations
    /\ config.Iterations > 0

(***************************************************************************)
(* The loop of BenchmarkOperations after the cancellation (Spec)           *)
(***************************************************************************)
\* The step delivers an event to the callback.
Delivered == events' # events /\ events' # <<>>

\* The step is in BenchmarkOperation past BuildRequest: the sample request
\* of the operation has been built.
Built == pc' = "warmup"

\* C29: once the run context is cancelled BenchmarkOperations starts no
\* further operation: for an operation after the one in progress at the
\* cancellation no event is delivered and no request is built or sent.
NoOperationOnceCancelled ==
    [][(cancelled /\ pc = "loop" /\ opIdx > 0)
          => (~Delivered /\ ~Built /\ sent' = sent)]_vars

\* What the code does: the operations after the cancellation are entered,
\* their sample request is built and their first event delivered, and no
\* request of theirs is sent.
OperationEnteredOnceCancelled ==
    /\ cancelled
    /\ opIdx > 0
    /\ pc = "warmup"
    /\ sent[opIdx + 1] = 0
    /\ \E k \in DOMAIN measTook : measTook[k].op = opIdx - 1 /\ measTook[k].cancelled

(***************************************************************************)
(* Properties of the shared counters (SpecCounters)                        *)
(***************************************************************************)
ProgressAt(k) == events[k].Progress

\* No update is lost: every job is in the channel, with a worker that has
\* still to count it, or counted once.
EveryJobCounted ==
    counters.completed + Len(jobs)
       + Cardinality({w \in DOMAIN wpc : wpc[w] = "update"}) = config.Iterations

\* The workers that hold a count they read hold different counts.
CountsReadOnce ==
    \A v, w \in DOMAIN wpc :
        (v # w /\ wpc[v] = "report" /\ wpc[w] = "report")
            => wcur[v].completed # wcur[w].completed

ProgressEventsSound ==
    \A k \in DOMAIN events :
        /\ events[k].Type = EventBenchmarkProgress
        /\ ProgressAt(k) % progressInterval = 0
        /\ ProgressAt(k) <= config.Iterations
        /\ events[k].ErrorCount <= ProgressAt(k)
        /\ \A j \in DOMAIN events : j # k => ProgressAt(j) # ProgressAt(k)

\* C30: in a Measuring phase that is not cancelled the shared counters lose
\* no update: each completion value is read by one worker, the progress
\* events carry pairwise distinct Progress values with Progress <=
\* Iterations and ErrorCount <= Progress, and when the workers are done
\* floor(Iterations / interval) events were emitted and the completed
\* count is Iterations.
CountersLoseNoUpdate ==
    /\ EveryJobCounted
    /\ CountsReadOnce
    /\ ProgressEventsSound
    /\ AllExited =>
          /\ counters.completed = config.Iterations
          /\ Len(events) = config.Iterations \div progressInterval

\* Several workers are done, a request has failed, the interval is 2 and
\* the events are half as many as the completions.
CountersLoseNoUpdateWitness ==
    /\ AllExited
    /\ Len(wpc) > 1
    /\ progressInterval > 1
    /\ counters.completed = config.Iterations
    /\ counters.errorCount > 0
    /\ Len(events) * progressInterval = config.Iterations

\* Two workers hold the counts they read at the same time.
CountsHeldTogether ==
    \E v, w \in DOMAIN wpc :
        /\ v # w
        /\ wpc[v] = "report"
        /\ wpc[w] = "report"
        /\ wcur[v].errorCount # wcur[w].errorCount

\* The same count in the run with its driver (Spec): when the workers of
\* a run that was not cancelled are done, every job was counted.
CompletedAllInRun ==
    (~cancelled /\ pc = "wait" /\ AllExited) =>
        /\ counters.completed = config.Iterations
        /\ Cardinality({k \in DOMAIN events :
                           events[k].Type = EventBenchmarkProgress})
              = config.Iterations \div progressInterval

====
